---- MODULE Spec2Model ----
(***************************************************************************)
(* RecursiveGraphAnalyzer.analyze (src/analysis/RecursiveGraphAnalyzer.ts) *)
(* as a state machine: the preload/index/seed prologue, one step per       *)
(* iteration of the breadth-first work loop, and the final result.         *)
(*                                                                         *)
(* Strings are sequences of tokens: a path is the sequence of its          *)
(* segments (an absolute path starts with the token "/"), a diagnostic is  *)
(* the sequence of the pieces its template literal concatenates, and       *)
(* String.prototype.includes is a search for a token.                      *)
(***************************************************************************)
EXTENDS Integers, Sequences, FiniteSets, TLC

\* ---- bounds of the model ----
MaxRoots == 2
MaxRefs == 2

\* ---- program constants ----
Infinity == 1000000
DefaultMaxNodes == 500
PreloadMaxDepth == 2

\* ---- generic helpers ----
BoundedSeq(S, n) == UNION { [1..k -> S] : k \in 0..n }

Range(s) == { s[i] : i \in 1..Len(s) }

\* ---- path ----
Cwd == <<"/", "p">>

Resolve(p) == IF Len(p) > 0 /\ p[1] = "/" THEN p ELSE Cwd \o p

Dirname(p) == SubSeq(p, 1, Len(p) - 1)

\* ---- the files on disk and the classes they declare ----
FileA == <<"/", "p", "a.ts">>
FileB == <<"/", "p", "b.ts">>
FileS == <<"/", "q", "s.ts">>
FileT == <<"/", "q", "t.ts">>
FileD == <<"/", "q", "d.ts">>
FileU == <<"/", "r", "u.ts">>
FileMissing == <<"/", "p", "Node limit", "x.ts">>

DiskFiles == <<FileA, FileB, FileS, FileT, FileD, FileU>>

\* "D" and "E" are unnamed classes (export default class { }): they have no
\* name. /r/u.ts declares the service "U" and the unnamed component "E".
ClassIds == {"A", "B", "S", "T", "D", "U", "E"}

NoName == ""

FileOf(c) ==
  CASE c = "A" -> FileA
    [] c = "B" -> FileB
    [] c = "S" -> FileS
    [] c = "T" -> FileT
    [] c = "D" -> FileD
    [] c \in {"U", "E"} -> FileU

GetName(c) == IF c \in {"D", "E"} THEN NoName ELSE c

Decorators(c) ==
  CASE c \in {"A", "B", "D", "E"} -> {"Component"}
    [] c \in {"S", "U"} -> {"Injectable"}
    [] c = "T" -> {}

\* The selector string literal of the @Component decorator, as the list of
\* its comma-separated, trimmed, non-empty parts.
SelectorParts(c) ==
  CASE c = "A" -> <<"a-comp">>
    [] c = "B" -> <<"b-comp", "b-alt", "[b-attr]">>
    [] c = "D" -> <<"d-comp">>
    [] c = "E" -> <<"e-comp">>
    [] OTHER -> <<>>

GetClasses(f) ==
  CASE f = FileA -> <<"A">>
    [] f = FileB -> <<"B">>
    [] f = FileS -> <<"S">>
    [] f = FileT -> <<"T">>
    [] f = FileD -> <<"D">>
    [] f = FileU -> <<"U", "E">>
    [] OTHER -> <<>>

Components == { c \in ClassIds : "Component" \in Decorators(c) /\ GetName(c) # NoName }
NamedClasses == { c \in ClassIds : GetName(c) # NoName }

\* start-tag names the template of a component can contain
TemplateTagsOf(c) ==
  CASE c = "A" -> {"a-comp", "b-comp", "d-comp", "Div"}
    [] c = "B" -> {"a-comp"}

\* type names the constructor parameters and fields of a class can carry
\* ("HttpClient" is a library type: it resolves to no class of the project)
MemberTypesOf(c) ==
  CASE c = "A" -> {"S", "B", "HttpClient"}
    [] c = "B" -> {"S"}
    [] c = "S" -> {"S", "T"}
    [] c = "T" -> {"S"}
    [] c = "U" -> {}

\* ---- request inputs ----
RootCandidates ==
  { [sourceFilePath |-> <<"a.ts">>, componentClassName |-> "A"],
    [sourceFilePath |-> FileMissing, componentClassName |-> "A"],
    [sourceFilePath |-> FileD, componentClassName |-> "Nope"] }

Limits ==
  { [maxNodes |-> n, maxDepth |-> d] : n \in {0, 1, 2, DefaultMaxNodes}, d \in {0, Infinity} }

\* A reference written in the sources: a start tag in a component's template
\* or a typed constructor parameter / field of a class.
RefUniverse ==
  UNION { { [owner |-> c, kind |-> "tag", target |-> t] : t \in TemplateTagsOf(c) } : c \in Components }
  \cup UNION { { [owner |-> c, kind |-> "type", target |-> t] : t \in MemberTypesOf(c) } : c \in NamedClasses }

RECURSIVE RefsOf(_, _, _)
RefsOf(refs, c, kind) ==
  IF refs = <<>> THEN <<>>
  ELSE LET r == Head(refs)
           rest == RefsOf(Tail(refs), c, kind)
       IN IF r.owner = c /\ r.kind = kind THEN <<r.target>> \o rest ELSE rest

VARIABLES
  roots, maxDepth, maxNodes,   \* the request
  reqTargetModules,            \* req.targetModules, the default target modules: Undefined when absent
  template, members,           \* the sources on disk: per class, tag names of its template and type names of its members
  project,                     \* files loaded in the ts-morph project
  selectorToComponent,         \* the selector index
  queue, visited, nodes, edges, diagnostics,
  truncated,                   \* limits.truncated of the returned result
  pc,
  source,                      \* the component file an AngularComponentAnalyzer reads: its imports, members and calls
  analyzer,                    \* the fields of the AngularComponentAnalyzer instance
  op,                          \* the last call the caller made
  disk,                        \* the declarations in the .ts files under the project root
  includeGlobs,                \* options.includeGlobs of buildServiceCatalog
  catalog,                     \* the ServiceCatalogResult, once built
  classIndex,                  \* the ClassIndexResult, once built
  routingFile,                 \* the routing file a RouteAnalyzer reads: the forRoot/forChild argument and the variable declarations
  routesWithMenuId,            \* RouteAnalyzer.routesWithMenuId
  totalRoutesFound             \* RouteAnalyzer.totalRoutesFound

vars == <<roots, maxDepth, maxNodes, reqTargetModules, template, members, project, selectorToComponent,
          queue, visited, nodes, edges, diagnostics, truncated, pc, source, analyzer, op,
          disk, includeGlobs, catalog, classIndex, routingFile, routesWithMenuId, totalRoutesFound>>

request == <<roots, maxDepth, maxNodes, reqTargetModules, template, members>>

\* the state of the service catalog and of the class index
indexVars == <<disk, includeGlobs, catalog, classIndex>>

\* what a traversal never touches
analyzerVars == <<source, analyzer, op, indexVars, routingFile, routesWithMenuId, totalRoutesFound>>

\* what a component analysis never touches
traversalVars == <<roots, maxDepth, maxNodes, reqTargetModules, template, members, selectorToComponent,
                   queue, visited, nodes, edges, diagnostics, truncated, pc>>

\* ---- strings ----
Includes(text, needle) == \E i \in 1..Len(text) : text[i] = needle

FirstChar(s) ==
  CASE s = "[b-attr]" -> "["
    [] OTHER -> "x"

ToLowerCase(tag) == IF tag = "Div" THEN "div" ELSE tag

Undefined == "undefined"

\* no catalog and no class index is being built
IndexIdle ==
  /\ disk = <<>>
  /\ includeGlobs = <<>>
  /\ catalog = Undefined
  /\ classIndex = Undefined

\* no RouteAnalyzer has been constructed
RouteIdle ==
  /\ routingFile = <<>>
  /\ routesWithMenuId = <<>>
  /\ totalRoutesFound = 0

\* ---- diagnostics ----
NodeLimitDiag(max) == <<"Node limit", " ", ToString(max), " reached; traversal truncated.">>

FileNotFoundDiag(file) == <<"File not found: ">> \o file

ClassNotFoundDiag(className, file) == <<"Class ", className, " not found in ">> \o file

TruncatedFlagExactMatch(diags) == \E i \in 1..Len(diags) : diags[i] = <<"Node limit">>

TruncatedFlag(diags) == \E i \in 1..Len(diags) : Includes(diags[i], "Node limit")

\* ---- traversal helpers ----
NodeKey(file, className) == Resolve(file) \o <<"::", className>>

NodeLimitReachedStrict(count, max) == count > max

NodeLimitReached(count, max) == count >= max

DepthExceededOffByOne(depth, max) == depth > max + 1

DepthExceeded(depth, max) == depth > max

VisitedAddNothing(vis, key) == vis

VisitedAdd(vis, key) == vis \cup {key}

ShouldEnqueueAlways(vis, key) == TRUE

ShouldEnqueue(vis, key) == key \notin vis

CanLoadFile(proj, file) == file \in proj \/ file \in Range(DiskFiles)

GetClass(file, className) ==
  LET hits == { c \in Range(GetClasses(file)) : GetName(c) # NoName /\ GetName(c) = className }
  IN IF hits = {} THEN Undefined ELSE CHOOSE c \in hits : TRUE

HasDecorator(c, name) == name \in Decorators(c)

HtmlTags == {"div", "span", "h1", "h2", "h3", "h4", "h5", "h6", "p", "ul", "li", "ol",
             "header", "footer", "section", "article", "main", "nav", "a", "img", "button",
             "input", "select", "option", "textarea", "form", "label", "table", "thead",
             "tbody", "tr", "td", "th", "pre", "code"}

IsLikelyHtmlTag(tag) == ToLowerCase(tag) \in HtmlTags

\* The template text is the sequence of the names its start tags carry; the
\* result is the JS Set of the non-HTML ones, in insertion order.
RECURSIVE ExtractInto(_, _)
ExtractInto(tmpl, acc) ==
  IF tmpl = <<>> THEN acc
  ELSE LET tag == Head(tmpl)
       IN IF IsLikelyHtmlTag(tag) \/ tag \in Range(acc)
          THEN ExtractInto(Tail(tmpl), acc)
          ELSE ExtractInto(Tail(tmpl), Append(acc, tag))

ExtractElementSelectorsFromTemplate(tmpl) == ExtractInto(tmpl, <<>>)

\* The class declaration a type name resolves to through the type checker.
ResolveType(t) == IF t \in NamedClasses THEN t ELSE Undefined

RECURSIVE DedupByKey(_, _)
DedupByKey(results, acc) ==
  IF results = <<>> THEN acc
  ELSE LET r == Head(results)
       IN IF \E i \in 1..Len(acc) : NodeKey(acc[i].file, acc[i].className) = NodeKey(r.file, r.className)
          THEN DedupByKey(Tail(results), acc)
          ELSE DedupByKey(Tail(results), Append(acc, r))

RECURSIVE ResolvedTypes(_)
ResolvedTypes(types) ==
  IF types = <<>> THEN <<>>
  ELSE LET d == ResolveType(Head(types))
       IN IF d = Undefined THEN ResolvedTypes(Tail(types))
          ELSE <<[file |-> FileOf(d), className |-> GetName(d)]>> \o ResolvedTypes(Tail(types))

CollectInjectedClassTypesNoDedup(types) == ResolvedTypes(types)

CollectInjectedClassTypes(types) == DedupByKey(ResolvedTypes(types), <<>>)

\* ---- selector index ----
EmptyIndex == [k \in {} |-> <<>>]

RECURSIVE RegisterParts(_, _, _, _)
RegisterParts(idx, f, c, parts) ==
  IF parts = <<>> THEN idx
  ELSE LET part == Head(parts)
           arr == IF part \in DOMAIN idx THEN idx[part] ELSE <<>>
           name == IF GetName(c) = NoName THEN "default" ELSE GetName(c)
           exists == \E i \in 1..Len(arr) : arr[i].file = f /\ arr[i].className = name
           idx2 == IF FirstChar(part) \in {"[", "."} \/ exists THEN idx
                   ELSE [k \in DOMAIN idx \cup {part} |->
                           IF k = part
                           THEN Append(arr, [file |-> f, className |-> name, selector |-> part])
                           ELSE idx[k]]
       IN RegisterParts(idx2, f, c, Tail(parts))

RECURSIVE RegisterClasses(_, _, _)
RegisterClasses(idx, f, classes) ==
  IF classes = <<>> THEN idx
  ELSE LET c == Head(classes)
           idx2 == IF HasDecorator(c, "Component") THEN RegisterParts(idx, f, c, SelectorParts(c)) ELSE idx
       IN RegisterClasses(idx2, f, Tail(classes))

RECURSIVE RegisterFiles(_, _)
RegisterFiles(idx, files) ==
  IF files = <<>> THEN idx
  ELSE RegisterFiles(RegisterClasses(idx, Head(files), GetClasses(Head(files))), Tail(files))

GetSourceFiles(proj) == SelectSeq(DiskFiles, LAMBDA f : f \in proj)

BuildSelectorIndex(initial, idx, files) == RegisterFiles(IF initial THEN EmptyIndex ELSE idx, files)

\* ---- preloading ----
\* The relative imports of a file: the files declaring the classes its members name.
RECURSIVE ImportsOfTypes(_, _)
ImportsOfTypes(f, types) ==
  IF types = <<>> THEN <<>>
  ELSE LET d == ResolveType(Head(types))
       IN IF d = Undefined \/ FileOf(d) = f THEN ImportsOfTypes(f, Tail(types))
          ELSE <<FileOf(d)>> \o ImportsOfTypes(f, Tail(types))

RECURSIVE ImportsOfClasses(_, _, _)
ImportsOfClasses(f, classes, mem) ==
  IF classes = <<>> THEN <<>>
  ELSE (IF Head(classes) \in DOMAIN mem THEN ImportsOfTypes(f, mem[Head(classes)]) ELSE <<>>)
       \o ImportsOfClasses(f, Tail(classes), mem)

GetImportDeclarations(f, mem) == ImportsOfClasses(f, GetClasses(f), mem)

RECURSIVE PreloadRelativeImports(_, _, _, _)
RECURSIVE PreloadEach(_, _, _, _)
PreloadRelativeImports(proj, f, depth, mem) ==
  IF depth > PreloadMaxDepth THEN proj
  ELSE PreloadEach(proj, GetImportDeclarations(f, mem), depth, mem)

PreloadEach(proj, imps, depth, mem) ==
  IF imps = <<>> THEN proj
  ELSE LET g == Head(imps)
           proj2 == IF g \in proj THEN proj
                    ELSE PreloadRelativeImports(proj \cup {g}, g, depth + 1, mem)
       IN PreloadEach(proj2, Tail(imps), depth, mem)

RECURSIVE PreloadRoots(_, _, _)
PreloadRoots(proj, rs, mem) ==
  IF rs = <<>> THEN proj
  ELSE LET abs == Resolve(Head(rs).sourceFilePath)
           proj2 == IF CanLoadFile(proj, abs)
                    THEN PreloadRelativeImports(proj \cup {abs}, abs, 0, mem)
                    ELSE proj
       IN PreloadRoots(proj2, Tail(rs), mem)

LoadSiblings(proj, rs) ==
  LET rootDirs == { Dirname(Resolve(rs[i].sourceFilePath)) : i \in 1..Len(rs) }
  IN proj \cup { f \in Range(DiskFiles) : Dirname(f) \in rootDirs }

SeedQueue(rs) ==
  [i \in 1..Len(rs) |->
     [file |-> Resolve(rs[i].sourceFilePath), className |-> rs[i].componentClassName,
      depth |-> 0, reason |-> "root"]]

\* ==== AngularComponentAnalyzer (src/analysis/AngularComponentAnalyzer.ts) ====
\* The component file is a sequence of elements in source order: import
\* declarations, constructor parameters, property declarations and call
\* expressions. Type texts and callee texts are token sequences.
MaxElems == 4

TargetModule == "tn-api"

\* one element: an import declaration (module specifier, form, local name), a
\* constructor parameter (modifier, name, type text), a property declaration
\* (name, type text) or a call expression (container, callee text)
Elem(kind, spec, scope, name, text) ==
  [kind |-> kind, spec |-> spec, scope |-> scope, name |-> name, text |-> text]

ElemUniverse ==
  { Elem("import", TargetModule, "named", "Svc", <<>>),
    Elem("import", TargetModule, "namespace", "Api", <<>>),
    Elem("import", "other-lib", "named", "Helper", <<>>),
    Elem("param", "", "private", "svc", <<"Svc">>),
    Elem("param", "", "", "svc", <<"Svc">>),
    Elem("param", "", "", "p", <<"Api", ".", "Client">>),
    Elem("prop", "", "", "svc", <<"Api", ".", "Client">>),
    Elem("call", "", "MethodDeclaration", "", <<"this", ".", "svc", ".", "load">>),
    Elem("call", "", "MethodDeclaration", "", <<"this", ".", "svc", "?.", "save">>),
    Elem("call", "", "Constructor", "", <<"p", "?.", "fetch">>),
    Elem("call", "", "GetAccessor", "", <<"p", ".", "fetch">>),
    Elem("call", "", "Constructor", "", <<"this", ".", "svc", ".", "load", "(", ")", ".", "then">>) }

\* the files of the model: elements of one kind keep their order, the kinds
\* come in the order import, parameter, property, call, and the parameters of
\* the constructor have distinct names
Sources ==
  LET KindRank(k) ==
        CASE k = "import" -> 1 [] k = "param" -> 2 [] k = "prop" -> 3 [] k = "call" -> 4
  IN
  { s \in BoundedSeq(ElemUniverse, MaxElems) :
      /\ \A i \in 1..(Len(s) - 1) : KindRank(s[i].kind) <= KindRank(s[i + 1].kind)
      /\ \A i, j \in 1..Len(s) :
            (i # j /\ s[i].kind = "param" /\ s[j].kind = "param") => s[i].name # s[j].name }

\* the file at a path: /p/a.ts is the component file under analysis, the
\* other files of the disk declare no import and no member
SourceOf(file, src) == IF file = FileA THEN src ELSE <<>>

\* getImportDeclarations(), getParameters(), getProperties()
ElemsOf(src, kind) == SelectSeq(src, LAMBDA e : e.kind = kind)

\* ---- ImportMatcher.ts ----
RECURSIVE CollectImports(_, _, _)
CollectImports(decls, targetModules, acc) ==
  IF decls = <<>> THEN acc
  ELSE LET d == Head(decls)
           acc2 == IF d.spec \notin Range(targetModules) THEN acc
                   ELSE [importedLocalNames |->
                           IF d.scope = "namespace" THEN acc.importedLocalNames
                           ELSE acc.importedLocalNames \cup {d.name},
                         namespaceLocalNames |->
                           IF d.scope = "namespace" THEN acc.namespaceLocalNames \cup {d.name}
                           ELSE acc.namespaceLocalNames,
                         matchedModuleSpecifiers |-> Append(acc.matchedModuleSpecifiers, d.spec),
                         importsFromTargetModules |-> Append(acc.importsFromTargetModules, d.name)]
       IN CollectImports(Tail(decls), targetModules, acc2)

CollectTargetImportsForFile(src, targetModules) ==
  CollectImports(ElemsOf(src, "import"), targetModules,
                 [importedLocalNames |-> {}, namespaceLocalNames |-> {},
                  matchedModuleSpecifiers |-> <<>>, importsFromTargetModules |-> <<>>])

\* typeText.split('.')
Split(text) == SelectSeq(text, LAMBDA t : t # ".")

MatchType(typeText, importedLocalNames, namespaceLocalNames) ==
  IF Len(typeText) = 1 /\ typeText[1] \in importedLocalNames THEN typeText[1]
  ELSE IF Len(Split(typeText)) = 2 /\ Split(typeText)[1] \in namespaceLocalNames THEN Split(typeText)[2]
  ELSE Undefined

MapHas(map, key) == \E i \in 1..Len(map) : map[i].propertyName = key

RECURSIVE ScanMembers(_, _, _, _)
ScanMembers(ms, importedLocalNames, namespaceLocalNames, map) ==
  IF ms = <<>> THEN map
  ELSE LET match == MatchType(Head(ms).text, importedLocalNames, namespaceLocalNames)
           map2 == IF match = Undefined \/ MapHas(map, Head(ms).name) THEN map
                   ELSE Append(map, [propertyName |-> Head(ms).name, typeName |-> match, methods |-> <<>>])
       IN ScanMembers(Tail(ms), importedLocalNames, namespaceLocalNames, map2)

CollectTargetInstances(src, importedLocalNames, namespaceLocalNames) ==
  ScanMembers(SelectSeq(ElemsOf(src, "param"), LAMBDA p : p.scope # "") \o ElemsOf(src, "prop"),
              importedLocalNames, namespaceLocalNames, <<>>)

CollectCtorOnlyParams(src, importedLocalNames, namespaceLocalNames) ==
  ScanMembers(SelectSeq(ElemsOf(src, "param"), LAMBDA p : p.scope = ""),
              importedLocalNames, namespaceLocalNames, <<>>)

\* ---- MethodUsageCollector.ts ----
AccessTokensStrict == {"."}

\* the tokens of a property access: '.' and the optional chain '?.'
AccessTokens == {".", "?."}

\* \w+
IsWord(t) == t \notin {".", "?.", "(", ")"}

\* /this\.(\w+)\??\.(\w+)\s*\(/ on the callee text: <<prop, method>> of the
\* first match, <<>> without a match
ThisCallMatch(t) ==
  LET hits == { i \in 1..(Len(t) - 5) :
                  /\ t[i] = "this" /\ t[i + 1] = "." /\ IsWord(t[i + 2])
                  /\ t[i + 3] \in AccessTokens /\ IsWord(t[i + 4]) /\ t[i + 5] = "(" }
  IN IF hits = {} THEN <<>>
     ELSE LET i == CHOOSE h \in hits : \A j \in hits : h <= j IN <<t[i + 2], t[i + 4]>>

\* /^(?:\s*)?(\w+)\??\.(\w+)\s*\(/ on the callee text
IdMatch(t) ==
  IF Len(t) >= 4 /\ IsWord(t[1]) /\ t[2] \in AccessTokens /\ IsWord(t[3]) /\ t[4] = "("
  THEN <<t[1], t[3]>> ELSE <<>>

\* the expression is a PropertyAccessExpression: <left> . <name>
IsPropertyAccess(t) ==
  Len(t) >= 3 /\ t[Len(t) - 1] \in AccessTokens /\ IsWord(t[Len(t)])

LeftOf(t) == SubSeq(t, 1, Len(t) - 2)

IsCtorAlways(container) == TRUE

IsCtor(container) == container = "Constructor"

\* rec.methods.add(methodName) on the record of one name
AddMethod(map, name, method) ==
  [i \in 1..Len(map) |->
     IF map[i].propertyName = name /\ method \notin Range(map[i].methods)
     THEN [map[i] EXCEPT !.methods = Append(@, method)]
     ELSE map[i]]

\* the callback of forEachDescendant for one call expression (lines 49-107)
VisitCall(t, isCtor, maps) ==
  LET m == ThisCallMatch(t)
      id == IdMatch(t)
      left == LeftOf(t)
  IN IF m # <<>>
     THEN (IF MapHas(maps.instances, m[1])
           THEN [maps EXCEPT !.instances = AddMethod(@, m[1], m[2])] ELSE maps)
     ELSE IF isCtor /\ id # <<>> /\ MapHas(maps.ctorOnly, id[1])
     THEN [maps EXCEPT !.ctorOnly = AddMethod(@, id[1], id[2])]
     ELSE IF ~IsPropertyAccess(t) THEN maps
     ELSE IF IsPropertyAccess(left) /\ LeftOf(left) = <<"this">> /\ MapHas(maps.instances, left[Len(left)])
     THEN [maps EXCEPT !.instances = AddMethod(@, left[Len(left)], t[Len(t)])]
     ELSE IF isCtor /\ Len(left) = 1 /\ IsWord(left[1]) /\ left[1] # "this" /\ MapHas(maps.ctorOnly, left[1])
     THEN [maps EXCEPT !.ctorOnly = AddMethod(@, left[1], t[Len(t)])]
     ELSE maps

\* the call expressions among a call and its descendants, outermost first:
\* the callee of a chained call holds the inner call
RECURSIVE CallExpressions(_)
CallExpressions(t) ==
  LET opens == { i \in 1..Len(t) : t[i] = "(" }
  IN <<t>> \o (IF opens = {} THEN <<>>
               ELSE CallExpressions(SubSeq(t, 1, (CHOOSE i \in opens : \A j \in opens : j <= i) - 1)))

RECURSIVE Concat(_)
Concat(ss) == IF ss = <<>> THEN <<>> ELSE Head(ss) \o Concat(Tail(ss))

RECURSIVE VisitCalls(_, _, _)
VisitCalls(calls, isCtor, maps) ==
  IF calls = <<>> THEN maps
  ELSE VisitCalls(Tail(calls), isCtor, VisitCall(Head(calls), isCtor, maps))

\* methods, get accessors, set accessors, constructors (lines 39-44)
MethodContainers == <<"MethodDeclaration", "GetAccessor", "SetAccessor", "Constructor">>

RECURSIVE VisitContainers(_, _, _)
VisitContainers(containers, src, maps) ==
  IF containers = <<>> THEN maps
  ELSE VisitContainers(Tail(containers), src,
         LET elems == SelectSeq(src, LAMBDA e : e.kind = "call" /\ e.scope = Head(containers))
         IN VisitCalls(Concat([i \in 1..Len(elems) |-> CallExpressions(elems[i].text)]),
                       IsCtor(Head(containers)), maps))

CollectInstanceMethodUsages(src, instancesMap, ctorOnlyParamsMap) ==
  VisitContainers(MethodContainers, src, [instances |-> instancesMap, ctorOnly |-> ctorOnlyParamsMap])

\* ---- AngularComponentAnalyzer ----
\* the method names of the model in the order of their UTF-16 code units
CodeUnitLess(a, b) ==
  LET CodeUnitOrder == <<"fetch", "load", "save", "then">>
  IN
  (CHOOSE i \in 1..Len(CodeUnitOrder) : CodeUnitOrder[i] = a)
    < (CHOOSE i \in 1..Len(CodeUnitOrder) : CodeUnitOrder[i] = b)

SortNothing(s) == s

\* Array.prototype.sort() without a comparator
Sort(s) == SortSeq(s, CodeUnitLess)

\* Array.from(new Set(...)): the first occurrences, in order
RECURSIVE Distinct(_, _)
Distinct(s, acc) ==
  IF s = <<>> THEN acc
  ELSE Distinct(Tail(s), IF Head(s) \in Range(acc) THEN acc ELSE Append(acc, Head(s)))

\* new AngularComponentAnalyzer(input), lines 181-201
NewAnalyzer(input) ==
  [sourceFilePath |-> input.sourceFilePath,
   componentClassName |-> input.componentClassName,
   targetModules |-> IF input.targetModules = Undefined THEN <<>> ELSE input.targetModules,
   templateFilePath |-> Undefined,
   inlineTemplate |-> Undefined,
   importsFromTargetModules |-> <<>>,
   matchedModuleSpecifiers |-> <<>>,
   serviceInstancesFromTargetModules |-> <<>>,
   allMethodsUsedOnTargetInstances |-> <<>>]

ResetState(a) ==
  [a EXCEPT !.templateFilePath = Undefined, !.inlineTemplate = Undefined,
            !.importsFromTargetModules = <<>>, !.matchedModuleSpecifiers = <<>>,
            !.serviceInstancesFromTargetModules = <<>>, !.allMethodsUsedOnTargetInstances = <<>>]

GetComponentClass(file, className) ==
  LET cls == GetClass(file, className)
  IN IF cls # Undefined /\ HasDecorator(cls, "Component") THEN cls ELSE Undefined

FinalizeSummaries(a, maps) ==
  LET values == maps.instances \o maps.ctorOnly
      instances == [i \in 1..Len(values) |->
                      [propertyName |-> values[i].propertyName, typeName |-> values[i].typeName,
                       methodsUsed |-> Sort(values[i].methods)]]
      allMethods == Distinct(Concat([i \in 1..Len(instances) |-> instances[i].methodsUsed]), <<>>)
  IN [a EXCEPT !.serviceInstancesFromTargetModules = instances,
               !.allMethodsUsedOnTargetInstances = Sort(allMethods)]

\* analyze(), lines 216-262: the instance after the call
AnalyzeResult(a, proj, src) ==
  IF ~CanLoadFile(proj, a.sourceFilePath) THEN a
  ELSE LET file == SourceOf(a.sourceFilePath, src)
           imports == CollectTargetImportsForFile(file, a.targetModules)
           a2 == [ResetState(a) EXCEPT !.matchedModuleSpecifiers = imports.matchedModuleSpecifiers,
                                       !.importsFromTargetModules = imports.importsFromTargetModules]
           cls == GetComponentClass(a.sourceFilePath, a.componentClassName)
           a3 == [a2 EXCEPT !.inlineTemplate = "<h1>A</h1>"]
           instancesMap == CollectTargetInstances(file, imports.importedLocalNames, imports.namespaceLocalNames)
           ctorOnlyParamsMap == CollectCtorOnlyParams(file, imports.importedLocalNames, imports.namespaceLocalNames)
       IN IF cls = Undefined THEN a2
          ELSE IF a.targetModules = <<>> THEN a3
          ELSE IF instancesMap = <<>> /\ ctorOnlyParamsMap = <<>>
          THEN [a3 EXCEPT !.serviceInstancesFromTargetModules = <<>>, !.allMethodsUsedOnTargetInstances = <<>>]
          ELSE FinalizeSummaries(a3, CollectInstanceMethodUsages(file, instancesMap, ctorOnlyParamsMap))

\* analyzeComponentNode, lines 203-210 of RecursiveGraphAnalyzer.ts: the
\* `direct` summary of a component node copies the analyzer's outputs
Direct(a) ==
  [instances |-> a.serviceInstancesFromTargetModules,
   allMethodsUsed |-> a.allMethodsUsedOnTargetInstances]

\* ---- the state machine ----
InitWith(rootCandidates, moduleLists, sources, limits, refSeqs, priorProjects) ==
  /\ roots \in BoundedSeq(rootCandidates, MaxRoots)
  /\ reqTargetModules \in moduleLists
  /\ \E l \in limits : maxDepth = l.maxDepth /\ maxNodes = l.maxNodes
  /\ \E refs \in refSeqs :
       /\ template = [c \in Components |-> RefsOf(refs, c, "tag")]
       /\ members = [c \in NamedClasses |-> RefsOf(refs, c, "type")]
  /\ project \in priorProjects
  /\ selectorToComponent = EmptyIndex
  /\ queue = <<>>
  /\ visited = {}
  /\ nodes = <<>>
  /\ edges = <<>>
  /\ diagnostics = <<>>
  /\ truncated = FALSE
  /\ pc = "start"
  /\ source \in sources
  /\ analyzer = Undefined
  /\ op = "none"
  /\ IndexIdle
  /\ RouteIdle

\* getSharedProject() in a fresh process: the shared project holds no file
FreshProject == {}

Init == InitWith(RootCandidates, {Undefined}, {<<>>}, Limits, BoundedSeq(RefUniverse, MaxRefs), {FreshProject})

\* The inputs of the fair specification: the default limits, one binding node
\* ceiling, one binding depth ceiling, and the references that form a
\* template-tag cycle and an injection self-reference.
FairLimits ==
  { l \in Limits : <<l.maxNodes, l.maxDepth>> \in
       { <<DefaultMaxNodes, Infinity>>, <<DefaultMaxNodes, 0>>, <<1, Infinity>> } }

FairRefUniverse ==
  { r \in RefUniverse :
      <<r.owner, r.target>> \in { <<"A", "b-comp">>, <<"B", "a-comp">>, <<"A", "S">>, <<"S", "S">> } }

FairInit == InitWith(RootCandidates, {Undefined}, {<<>>}, FairLimits, BoundedSeq(FairRefUniverse, MaxRefs), {FreshProject})

\* The shared project as earlier analyze calls of the same process leave it:
\* the files the prologue of a call with one root (or none) has loaded.
PriorProjects ==
  { LoadSiblings(PreloadRoots(FreshProject, rs, [c \in NamedClasses |-> <<>>]), rs) :
      rs \in BoundedSeq(RootCandidates, 1) }

\* a start tag that names the second selector alternative of B
AltTagRef == [owner |-> "A", kind |-> "tag", target |-> "b-alt"]

SharedRefUniverse ==
  FairRefUniverse \cup { r \in RefUniverse : r.owner = "A" /\ r.target = "d-comp" } \cup {AltTagRef}

SharedInit == InitWith(RootCandidates, {Undefined}, {<<>>}, FairLimits, BoundedSeq(SharedRefUniverse, MaxRefs), PriorProjects)

\* A chain of imports longer than the preloading follows: /p/a.ts imports
\* /p/b.ts, which imports /q/s.ts, which imports /q/t.ts, which imports
\* /r/u.ts; the template of A has a start tag <e-comp>, the selector of the
\* component /r/u.ts declares next to U. The sources hold any part of it.
DeepRefs ==
  << [owner |-> "A", kind |-> "tag", target |-> "e-comp"],
     [owner |-> "A", kind |-> "type", target |-> "B"],
     [owner |-> "B", kind |-> "type", target |-> "S"],
     [owner |-> "S", kind |-> "type", target |-> "T"],
     [owner |-> "T", kind |-> "type", target |-> "U"] >>

\* Requests whose roots carry module overrides: A without an override, with an
\* empty override and with the override ['tn-api'], B with the override
\* ['tn-api'], and the two failing roots.
ModuleRootCandidates ==
  RootCandidates
  \cup { [sourceFilePath |-> <<"a.ts">>, componentClassName |-> "A", targetModules |-> mods] :
           mods \in {<<>>, <<TargetModule>>} }
  \cup { [sourceFilePath |-> FileB, componentClassName |-> "B", targetModules |-> <<TargetModule>>] }

\* /p/a.ts as the component analysis reads it: a member of a tn-api type with
\* a call on it, and a member of an other-lib type
ModulesSource ==
  << Elem("import", TargetModule, "named", "Svc", <<>>),
     Elem("import", "other-lib", "named", "Helper", <<>>),
     Elem("param", "", "private", "svc", <<"Svc">>),
     Elem("prop", "", "", "helper", <<"Helper">>),
     Elem("call", "", "MethodDeclaration", "", <<"this", ".", "svc", ".", "load">>) >>

\* lines 230-235
ResolveTargetModulesForRootSkipEmpty(req, item) ==
  LET hits == { i \in 1..Len(req.roots) :
                  /\ Resolve(req.roots[i].sourceFilePath) = Resolve(item.file)
                  /\ req.roots[i].componentClassName = item.className }
      root == req.roots[CHOOSE i \in hits : \A j \in hits : i <= j]
  IN IF hits # {} /\ "targetModules" \in DOMAIN root /\ root.targetModules # <<>>
     THEN root.targetModules
     ELSE IF req.targetModules = Undefined THEN <<>> ELSE req.targetModules

\* lines 230-235: roots.find returns the first root with the item's identity
ResolveTargetModulesForRoot(req, item) ==
  LET hits == { i \in 1..Len(req.roots) :
                  /\ Resolve(req.roots[i].sourceFilePath) = Resolve(item.file)
                  /\ req.roots[i].componentClassName = item.className }
      root == req.roots[CHOOSE i \in hits : \A j \in hits : i <= j]
  IN IF hits # {} /\ "targetModules" \in DOMAIN root
     THEN root.targetModules
     ELSE IF req.targetModules = Undefined THEN <<>> ELSE req.targetModules

\* lines 194-212: the component node
AnalyzeComponentNode(cls, file, className, mods, proj, src) ==
  [kind |-> "component", file |-> file, className |-> className, selector |-> SelectorParts(cls),
   direct |-> Direct(AnalyzeResult(NewAnalyzer([sourceFilePath |-> file, componentClassName |-> className,
                                                 targetModules |-> mods]), proj, src))]

\* analyze(), lines 71-107: preload the root files, their relative imports and
\* their directory siblings, build the selector index, seed the queue.
Start ==
  /\ pc = "start"
  /\ LET proj == LoadSiblings(PreloadRoots(project, roots, members), roots)
     IN /\ project' = proj
        /\ selectorToComponent' = BuildSelectorIndex(TRUE, selectorToComponent, GetSourceFiles(proj))
  /\ queue' = SeedQueue(roots)
  /\ pc' = "loop"
  /\ UNCHANGED <<request, analyzerVars, visited, nodes, edges, diagnostics, truncated>>

Item == Head(queue)
ItemKey == NodeKey(Item.file, Item.className)

Dequeued == pc = "loop" /\ queue # <<>>

SkipVisitedRequeue ==
  /\ Dequeued
  /\ ItemKey \in visited
  /\ queue' = Append(Tail(queue), Item)
  /\ UNCHANGED <<request, analyzerVars, project, selectorToComponent, visited, nodes, edges, diagnostics, truncated, pc>>

\* line 112
SkipVisited ==
  /\ Dequeued
  /\ ItemKey \in visited
  /\ queue' = Tail(queue)
  /\ UNCHANGED <<request, analyzerVars, project, selectorToComponent, visited, nodes, edges, diagnostics, truncated, pc>>

TruncateWithoutBreak ==
  /\ Dequeued
  /\ ItemKey \notin visited
  /\ NodeLimitReached(Len(nodes), maxNodes)
  /\ diagnostics' = Append(diagnostics, NodeLimitDiag(maxNodes))
  /\ queue' = Tail(queue)
  /\ UNCHANGED <<request, analyzerVars, project, selectorToComponent, visited, nodes, edges, truncated, pc>>

\* lines 113-116
Truncate ==
  /\ Dequeued
  /\ ItemKey \notin visited
  /\ NodeLimitReached(Len(nodes), maxNodes)
  /\ diagnostics' = Append(diagnostics, NodeLimitDiag(maxNodes))
  /\ queue' = Tail(queue)
  /\ pc' = "return"
  /\ UNCHANGED <<request, analyzerVars, project, selectorToComponent, visited, nodes, edges, truncated>>

\* line 117
SkipDepth ==
  /\ Dequeued
  /\ ItemKey \notin visited
  /\ ~NodeLimitReached(Len(nodes), maxNodes)
  /\ DepthExceeded(Item.depth, maxDepth)
  /\ queue' = Tail(queue)
  /\ UNCHANGED <<request, analyzerVars, project, selectorToComponent, visited, nodes, edges, diagnostics, truncated, pc>>

Admitted ==
  /\ Dequeued
  /\ ItemKey \notin visited
  /\ ~NodeLimitReached(Len(nodes), maxNodes)
  /\ ~DepthExceeded(Item.depth, maxDepth)

FileNotFoundUnmarked ==
  /\ Admitted
  /\ ~CanLoadFile(project, Item.file)
  /\ diagnostics' = Append(diagnostics, FileNotFoundDiag(Item.file))
  /\ queue' = Tail(queue)
  /\ UNCHANGED <<request, analyzerVars, project, selectorToComponent, visited, nodes, edges, truncated, pc>>

\* lines 118-124
FileNotFound ==
  /\ Admitted
  /\ ~CanLoadFile(project, Item.file)
  /\ visited' = VisitedAdd(visited, ItemKey)
  /\ diagnostics' = Append(diagnostics, FileNotFoundDiag(Item.file))
  /\ queue' = Tail(queue)
  /\ UNCHANGED <<request, analyzerVars, project, selectorToComponent, nodes, edges, truncated, pc>>

ClassNotFoundSilent ==
  /\ Admitted
  /\ CanLoadFile(project, Item.file)
  /\ GetClass(Item.file, Item.className) = Undefined
  /\ visited' = VisitedAdd(visited, ItemKey)
  /\ project' = project \cup {Item.file}
  /\ selectorToComponent' = BuildSelectorIndex(FALSE, selectorToComponent, <<Item.file>>)
  /\ queue' = Tail(queue)
  /\ UNCHANGED <<request, analyzerVars, nodes, edges, diagnostics, truncated, pc>>

\* lines 118-132
ClassNotFound ==
  /\ Admitted
  /\ CanLoadFile(project, Item.file)
  /\ GetClass(Item.file, Item.className) = Undefined
  /\ visited' = VisitedAdd(visited, ItemKey)
  /\ project' = project \cup {Item.file}
  /\ selectorToComponent' = BuildSelectorIndex(FALSE, selectorToComponent, <<Item.file>>)
  /\ diagnostics' = Append(diagnostics, ClassNotFoundDiag(Item.className, Item.file))
  /\ queue' = Tail(queue)
  /\ UNCHANGED <<request, analyzerVars, nodes, edges, truncated, pc>>

\* the targets a node's edges go to, as the loops of lines 141-152 and 155-161 visit them
RECURSIVE TemplateTagTargets(_, _)
TemplateTagTargets(selectors, idx) ==
  IF selectors = <<>> THEN <<>>
  ELSE (IF Head(selectors) \in DOMAIN idx
        THEN [i \in 1..Len(idx[Head(selectors)]) |->
                [file |-> idx[Head(selectors)][i].file, className |-> idx[Head(selectors)][i].className]]
        ELSE <<>>)
       \o TemplateTagTargets(Tail(selectors), idx)

EdgesToSwapped(from, targets, reason) ==
  [i \in 1..Len(targets) |->
     [from |-> targets[i], to |-> [file |-> from.file, className |-> from.className], reason |-> reason]]

EdgesTo(from, targets, reason) ==
  [i \in 1..Len(targets) |->
     [from |-> [file |-> from.file, className |-> from.className], to |-> targets[i], reason |-> reason]]

RECURSIVE PushesSameDepth(_, _, _, _)
RECURSIVE Pushes(_, _, _, _)
PushesSameDepth(vis, targets, depth, reason) ==
  IF targets = <<>> THEN <<>>
  ELSE (IF ShouldEnqueue(vis, NodeKey(Head(targets).file, Head(targets).className))
        THEN <<[file |-> Head(targets).file, className |-> Head(targets).className,
                depth |-> 0, reason |-> reason]>>
        ELSE <<>>)
       \o PushesSameDepth(vis, Tail(targets), depth, reason)

Pushes(vis, targets, depth, reason) ==
  IF targets = <<>> THEN <<>>
  ELSE (IF ShouldEnqueue(vis, NodeKey(Head(targets).file, Head(targets).className))
        THEN <<[file |-> Head(targets).file, className |-> Head(targets).className,
                depth |-> depth, reason |-> reason]>>
        ELSE <<>>)
       \o Pushes(vis, Tail(targets), depth, reason)

\* lines 118-161 and 174
ProcessComponent ==
  /\ Admitted
  /\ CanLoadFile(project, Item.file)
  /\ LET cls == GetClass(Item.file, Item.className)
     IN /\ cls # Undefined
        /\ HasDecorator(cls, "Component")
        /\ LET vis == VisitedAdd(visited, ItemKey)
               idx == BuildSelectorIndex(FALSE, selectorToComponent, <<Item.file>>)
               selectors == ExtractElementSelectorsFromTemplate(template[cls])
               comps == TemplateTagTargets(selectors, idx)
               deps == CollectInjectedClassTypes(members[cls])
           IN /\ visited' = vis
              /\ project' = project \cup {Item.file}
              /\ selectorToComponent' = idx
              /\ edges' = edges \o EdgesTo(Item, comps, "template-tag") \o EdgesTo(Item, deps, "injects")
              /\ queue' = Tail(queue) \o Pushes(vis, comps, Item.depth + 1, "template-tag")
                                     \o Pushes(vis, deps, Item.depth + 1, "injects")
              /\ nodes' = Append(nodes,
                    AnalyzeComponentNode(cls, Item.file, Item.className,
                       ResolveTargetModulesForRoot([roots |-> roots, targetModules |-> reqTargetModules], Item),
                       project \cup {Item.file}, source))
  /\ UNCHANGED <<request, analyzerVars, diagnostics, truncated, pc>>

\* lines 118-134 and 162-174
ProcessService ==
  /\ Admitted
  /\ CanLoadFile(project, Item.file)
  /\ LET cls == GetClass(Item.file, Item.className)
     IN /\ cls # Undefined
        /\ ~HasDecorator(cls, "Component")
        /\ LET vis == VisitedAdd(visited, ItemKey)
               deps == CollectInjectedClassTypes(members[cls])
           IN /\ visited' = vis
              /\ project' = project \cup {Item.file}
              /\ selectorToComponent' = BuildSelectorIndex(FALSE, selectorToComponent, <<Item.file>>)
              /\ edges' = edges \o EdgesTo(Item, deps, "injects")
              /\ queue' = Tail(queue) \o Pushes(vis, deps, Item.depth + 1, "injects")
              /\ nodes' = Append(nodes, [kind |-> "service", file |-> Item.file,
                                         className |-> Item.className, selector |-> <<>>])
  /\ UNCHANGED <<request, analyzerVars, diagnostics, truncated, pc>>

\* line 109: the queue is empty
LoopExit ==
  /\ pc = "loop"
  /\ queue = <<>>
  /\ pc' = "return"
  /\ UNCHANGED <<request, analyzerVars, project, selectorToComponent, queue, visited, nodes, edges, diagnostics, truncated>>

\* lines 184-190
Return ==
  /\ pc = "return"
  /\ truncated' = TruncatedFlag(diagnostics)
  /\ pc' = "done"
  /\ UNCHANGED <<request, analyzerVars, project, selectorToComponent, queue, visited, nodes, edges, diagnostics>>

Next ==
  \/ Start
  \/ SkipVisited
  \/ Truncate
  \/ SkipDepth
  \/ FileNotFound
  \/ ClassNotFound
  \/ ProcessComponent
  \/ ProcessService
  \/ LoopExit
  \/ Return

Spec == Init /\ [][Next]_vars

FairSpec == FairInit /\ [][Next]_vars /\ WF_vars(Next)

\* analyze() in a process whose shared project earlier calls have filled
SharedSpec == SharedInit /\ [][Next]_vars

\* analyze() over sources whose import chain is longer than the preloading
DeepSpec ==
  /\ InitWith(RootCandidates, {Undefined}, {<<>>}, Limits,
              { SelectSeq(DeepRefs, LAMBDA r : r \in kept) : kept \in SUBSET Range(DeepRefs) },
              {FreshProject})
  /\ [][Next]_vars

\* analyze() of requests with per-root and default target modules
ModulesSpec ==
  InitWith(ModuleRootCandidates, {Undefined, <<"other-lib">>}, {ModulesSource}, Limits,
           BoundedSeq(FairRefUniverse, 1), {FreshProject}) /\ [][Next]_vars

TypeOK ==
  /\ pc \in {"idle", "start", "loop", "return", "done"}
  /\ truncated \in BOOLEAN
  /\ op \in {"none", "new", "assign", "analyze", "buildServiceCatalog", "buildClassIndex", "analyzeRoutes"}

\* ---- an AngularComponentAnalyzer instance used on its own ----
TraversalIdle ==
  /\ roots = <<>>
  /\ reqTargetModules = Undefined
  /\ maxDepth = Infinity
  /\ maxNodes = DefaultMaxNodes
  /\ template = [c \in Components |-> <<>>]
  /\ members = [c \in NamedClasses |-> <<>>]
  /\ selectorToComponent = EmptyIndex
  /\ queue = <<>>
  /\ visited = {}
  /\ nodes = <<>>
  /\ edges = <<>>
  /\ diagnostics = <<>>
  /\ truncated = FALSE
  /\ pc = "idle"

AnalyzerInit ==
  /\ TraversalIdle
  /\ IndexIdle
  /\ RouteIdle
  /\ project = FreshProject
  /\ source \in Sources
  /\ \E tm \in {Undefined, <<TargetModule>>} :
       analyzer = NewAnalyzer([sourceFilePath |-> FileA, componentClassName |-> "A", targetModules |-> tm])
  /\ op = "new"

\* analyzer.analyze()
Analyze ==
  /\ op \in {"new", "assign", "analyze"}
  /\ analyzer' = AnalyzeResult(analyzer, project, source)
  /\ project' = IF CanLoadFile(project, analyzer.sourceFilePath)
                THEN project \cup {analyzer.sourceFilePath} ELSE project
  /\ op' = "analyze"
  /\ UNCHANGED <<source, traversalVars, indexVars, routingFile, routesWithMenuId, totalRoutesFound>>

\* analyzer.sourceFilePath = f: the configuration fields are public and
\* writable (lines 169-173)
AssignSourceFilePath ==
  /\ op = "analyze"
  /\ \E f \in {FileA, FileMissing, FileT} \ {analyzer.sourceFilePath} :
       analyzer' = [analyzer EXCEPT !.sourceFilePath = f]
  /\ op' = "assign"
  /\ UNCHANGED <<source, project, traversalVars, indexVars, routingFile, routesWithMenuId, totalRoutesFound>>

AnalyzerSpec == AnalyzerInit /\ [][Analyze \/ AssignSourceFilePath]_vars

\* ---- service-catalog/buildServiceCatalog.ts, class-index/buildClassIndex.ts ----
\* A path and a glob are token sequences: segments, '/', and the extensions
\* '.service', '.data', '.ts' of a file name; a key is a path, '#', a class name.
MaxDecls == 3

ProjectRoot == <<"/r">>
UserServiceFile == <<"/r", "/", "svc", "/", "user", ".service", ".ts">>
LibUserServiceFile == <<"/r", "/", "lib", "/", "user", ".service", ".ts">>
WidgetFile == <<"/r", "/", "app", "/", "widget", ".ts">>

\* one declaration of a file: a class (exported or not, its name, one member
\* with a type reference or none, the text of its body) or a relative import
\* (local name, module specifier). The member is a constructor parameter
\* property ("private"), a constructor parameter without a modifier ("param")
\* or a property declaration ("prop").
DeclUniverse ==
  LET Decl(file, kind, exported, name, memberKind, member, type, text) ==
        [file |-> file, kind |-> kind, exported |-> exported, name |-> name,
         memberKind |-> memberKind, member |-> member, type |-> type, text |-> text]
  IN
  { Decl(UserServiceFile, "class", TRUE, "UserService", "", "", "", <<>>),
    Decl(UserServiceFile, "class", TRUE, "AuditService", "", "", "", <<>>),
    Decl(LibUserServiceFile, "class", TRUE, "UserService", "", "", "", <<>>),
    Decl(WidgetFile, "class", FALSE, "UserService", "", "", "", <<>>),
    Decl(WidgetFile, "class", TRUE, "UserService", "", "", "", <<>>),
    Decl(WidgetFile, "class", TRUE, "Widget", "private", "u", "UserService",
         <<"this", ".", "u", "?.", "get", "(", ")", ";", "this", ".", "u", ".", "delete", "(", ")">>),
    Decl(WidgetFile, "class", TRUE, "Widget", "param", "u", "UserService", <<"u", ".", "get", "(", ")">>),
    Decl(WidgetFile, "class", TRUE, "Widget", "prop", "u", "UserService", <<>>),
    Decl(WidgetFile, "import", FALSE, "UserService", "", "", "",
         <<"..", "/", "svc", "/", "user", ".service">>) }

\* listAllFiles / collectTsFiles: the directory stack pops svc, then lib,
\* then app; the files of the model end with .ts and none with .spec.ts
ListAllFiles(root) == <<UserServiceFile, LibUserServiceFile, WidgetFile>>

\* fs.readFileSync(abs) / sf.getClasses() / sf.getImportDeclarations()
DeclsOf(d, file, kind) == SelectSeq(d, LAMBDA x : x.file = file /\ x.kind = kind)

\* globToRegExp(glob).test(rel): '**' is '.*', '*' is '[^/]*', every other
\* character matches itself, and the expression is anchored at both ends
RECURSIVE GlobMatch(_, _)
GlobMatch(glob, rel) ==
  IF glob = <<>> THEN rel = <<>>
  ELSE IF Head(glob) = "**"
       THEN \E k \in 0..Len(rel) : GlobMatch(Tail(glob), SubSeq(rel, k + 1, Len(rel)))
  ELSE IF Head(glob) = "*"
       THEN \E k \in 0..Len(rel) :
              /\ \A i \in 1..k : rel[i] # "/"
              /\ GlobMatch(Tail(glob), SubSeq(rel, k + 1, Len(rel)))
  ELSE rel # <<>> /\ Head(rel) = Head(glob) /\ GlobMatch(Tail(glob), Tail(rel))

\* path.relative(root, abs), then isServiceFile(relPosix, includeRegexes)
IsServiceFile(root, abs, globs) ==
  \E i \in 1..Len(globs) : GlobMatch(globs[i], SubSeq(abs, Len(root) + 2, Len(abs)))

\* /export\s+class\s+([A-Za-z0-9_]+)/g into a Set
ExtractExportedClasses(d, file) ==
  LET exported == SelectSeq(DeclsOf(d, file, "class"), LAMBDA x : x.exported)
  IN Distinct([i \in 1..Len(exported) |-> exported[i].name], <<>>)

ServiceKey(file, className) == file \o <<"#", className>>

\* the undefined of a key lookup
NoKey == <<>>

\* a.localeCompare(b): CollationOrder lists the tokens on which two keys or
\* two method names of the model can first differ, in collation order
RECURSIVE LocaleCompare(_, _)
LocaleCompare(a, b) ==
  LET CollationOrder == <<"app", "AuditService", "delete", "get", "lib", "svc", "UserService", "Widget">>
      Rank(tok) == IF tok \in Range(CollationOrder)
                   THEN CHOOSE i \in 1..Len(CollationOrder) : CollationOrder[i] = tok ELSE 0
  IN IF a = <<>> /\ b = <<>> THEN 0
     ELSE IF a = <<>> THEN -1
     ELSE IF b = <<>> THEN 1
     ELSE IF Head(a) = Head(b) THEN LocaleCompare(Tail(a), Tail(b))
     ELSE IF Rank(Head(a)) < Rank(Head(b)) THEN -1 ELSE 1

SortByKeyNothing(recs) == recs

\* .sort((a, b) => a.key.localeCompare(b.key))
SortByKey(recs) == SortSeq(recs, LAMBDA a, b : LocaleCompare(a.key, b.key) < 0)

\* lines 92-96: the exported classes of one file enter servicesMap
RECURSIVE AddServices(_, _, _)
AddServices(names, file, acc) ==
  IF names = <<>> THEN acc
  ELSE LET key == ServiceKey(file, Head(names))
       IN AddServices(Tail(names), file,
            IF \E i \in 1..Len(acc.services) : acc.services[i].key = key
            THEN [acc EXCEPT !.diagnostics = Append(@, <<"duplicate-key: ">> \o key)]
            ELSE [acc EXCEPT !.services =
                    Append(@, [key |-> key, file |-> file, className |-> Head(names)])])

\* lines 83-97: the loop over allFiles (every file of the model is readable)
RECURSIVE ScanFiles(_, _, _, _)
ScanFiles(files, globs, d, acc) ==
  IF files = <<>> THEN acc
  ELSE LET abs == Head(files)
           exported == ExtractExportedClasses(d, abs)
       IN ScanFiles(Tail(files), globs, d,
            IF ~IsServiceFile(ProjectRoot, abs, globs) THEN acc
            ELSE IF exported = <<>>
            THEN [acc EXCEPT !.diagnostics = Append(@, <<"no-exported-classes: ">> \o abs)]
            ELSE AddServices(exported, abs, acc))

BuildServiceCatalog(globs, d) ==
  IF globs = <<>>
  THEN [services |-> <<>>, diagnostics |-> << <<"No include globs provided">> >>]
  ELSE LET acc == ScanFiles(ListAllFiles(ProjectRoot), globs, d,
                            [services |-> <<>>, diagnostics |-> <<>>])
       IN [services |-> SortByKey(acc.services), diagnostics |-> acc.diagnostics]

\* ---- buildClassIndex.ts ----
\* serviceKeyByFileAndName.get(`${file.toLowerCase()}::${name}`): the last
\* record set under that map key
ByFileAndName(services, file, name) ==
  LET LowerPath(p) == [i \in 1..Len(p) |-> ToLowerCase(p[i])]
      hits == { i \in 1..Len(services) :
                  LowerPath(services[i].file) = LowerPath(file) /\ services[i].className = name }
  IN IF hits = {} THEN NoKey
     ELSE services[CHOOSE i \in hits : \A j \in hits : j <= i].key

\* serviceKeyByClassName.get(name) after lines 72-78: a second key under one
\* class name deletes the entry
RECURSIVE ByClassName(_, _, _)
ByClassName(services, name, existing) ==
  IF services = <<>> THEN existing
  ELSE LET s == Head(services)
       IN ByClassName(Tail(services), name,
            IF s.className # name THEN existing
            ELSE IF existing # NoKey /\ existing # s.key THEN NoKey
            ELSE IF existing = NoKey THEN s.key
            ELSE existing)

\* path.dirname(file)
DirOf(file) ==
  LET slashes == { i \in 1..Len(file) : file[i] = "/" }
  IN SubSeq(file, 1, (CHOOSE i \in slashes : \A j \in slashes : j <= i) - 1)

\* path.resolve(dir, spec)
RECURSIVE PathResolve(_, _)
PathResolve(dir, spec) ==
  IF spec = <<>> THEN dir
  ELSE LET tok == Head(spec)
       IN PathResolve(
            CASE tok = "/" -> dir
              [] tok = ".." -> DirOf(dir)
              [] tok \in {".service", ".data", ".ts"} -> Append(dir, tok)
              [] OTHER -> dir \o <<"/", tok>>,
            Tail(spec))

DeclaresClass(d, file, name) ==
  \E i \in 1..Len(d) : d[i].file = file /\ d[i].kind = "class" /\ d[i].name = name

\* the files that the import records of `file` with local name typeName
\* point to (line 92: spec + '.ts' resolved against the directory of the
\* file), kept when the file exists and declares the class (lines 142-148)
ImportedFiles(d, file, typeName) ==
  LET AbsTarget(spec) ==
        PathResolve(DirOf(file), IF spec[Len(spec)] = ".ts" THEN spec ELSE Append(spec, ".ts"))
      recs == SelectSeq(DeclsOf(d, file, "import"), LAMBDA r : r.name = typeName)
  IN SelectSeq([i \in 1..Len(recs) |-> AbsTarget(recs[i].text)],
               LAMBDA f : f \in Range(ListAllFiles(ProjectRoot)) /\ DeclaresClass(d, f, typeName))

\* resolveType(typeName) inside the class loop of file `file` (lines 134-158)
ResolveTypeName(services, d, file, typeName) ==
  LET OrElse(a, b) == IF a # NoKey THEN a ELSE b
      imports == ImportedFiles(d, file, typeName)
      declaring == IF DeclaresClass(d, file, typeName) THEN <<file>> ELSE imports
  IN IF declaring # <<>>
     THEN [classKey |-> ServiceKey(declaring[1], typeName),
           serviceKey |-> OrElse(ByFileAndName(services, declaring[1], typeName),
                                 ByClassName(services, typeName, NoKey))]
     ELSE [classKey |-> NoKey, serviceKey |-> ByClassName(services, typeName, NoKey)]

\* `this\.${memberName}\??\.([A-Za-z0-9_]+)\s*\(` with the g flag over the
\* class text: the method names of the matches, in order
MemberCalls(text, memberName) ==
  LET hits == SelectSeq([i \in 1..Len(text) |-> i],
                 LAMBDA i : /\ i + 5 <= Len(text)
                            /\ text[i] = "this" /\ text[i + 1] = "." /\ text[i + 2] = memberName
                            /\ text[i + 3] \in AccessTokens /\ IsWord(text[i + 4])
                            /\ text[i + 5] = "(")
  IN [k \in 1..Len(hits) |-> text[hits[k] + 4]]

\* lines 98-195 for one class declaration
ClassEntry(services, d, c) ==
  LET resolved == ResolveTypeName(services, d, c.file, c.type)
      \* lines 171-183: the set of `${svcKey}|${method}`, split, and sorted
      \* by service and then by method
      TnApiCalls(svcKey) ==
        LET methods == Distinct(MemberCalls(c.text, c.member), <<>>)
        IN SortSeq([k \in 1..Len(methods) |-> [service |-> svcKey, method |-> methods[k]]],
                   LAMBDA a, b : LocaleCompare(Append(a.service, a.method),
                                               Append(b.service, b.method)) < 0)
      \* lines 111-129: every constructor parameter and every property with
      \* a type reference is a candidate, whatever its modifiers
      candidate == c.member # ""
      injected == candidate /\ resolved.classKey # NoKey
      isMember == injected /\ resolved.serviceKey # NoKey
  IN [entry |-> [key |-> ServiceKey(c.file, c.name), file |-> c.file, className |-> c.name,
                 injects |-> IF injected THEN <<resolved.classKey>> ELSE <<>>,
                 tnApiCalls |-> IF isMember THEN TnApiCalls(resolved.serviceKey)
                                ELSE <<>>],
      diagnostics |-> IF candidate /\ ~injected
                      THEN << <<"unresolved-import:", c.type, ":">> \o c.file >> ELSE <<>>]

\* lines 87-201: the loop over the classes of the source files
RECURSIVE IndexClasses(_, _, _, _)
IndexClasses(cs, services, d, acc) ==
  IF cs = <<>> THEN acc
  ELSE LET c == Head(cs)
           key == ServiceKey(c.file, c.name)
           one == ClassEntry(services, d, c)
       IN IndexClasses(Tail(cs), services, d,
            IF \E i \in 1..Len(acc.classes) : acc.classes[i].key = key
            THEN [acc EXCEPT !.diagnostics = Append(@, <<"duplicate-class-key:">> \o key)]
            ELSE [classes |-> Append(acc.classes, one.entry),
                  diagnostics |-> acc.diagnostics \o one.diagnostics])

BuildClassIndex(services, d) ==
  LET files == ListAllFiles(ProjectRoot)
      cs == Concat([i \in 1..Len(files) |-> DeclsOf(d, files[i], "class")])
      acc == IndexClasses(cs, services, d, [classes |-> <<>>, diagnostics |-> <<>>])
  IN [classes |-> SortByKey(acc.classes), diagnostics |-> acc.diagnostics]

IndexInit ==
  /\ TraversalIdle
  /\ RouteIdle
  /\ project = FreshProject
  /\ source = <<>>
  /\ analyzer = Undefined
  /\ op = "none"
  /\ disk \in BoundedSeq(DeclUniverse, MaxDecls)
  /\ LET ServiceGlob == <<"**", "/", "*", ".service", ".ts">>
         DataGlob == <<"**", "/", "*", ".data", ".ts">>
         AllTsGlob == <<"**", "/", "*", ".ts">>
     IN includeGlobs \in {<<>>, <<ServiceGlob>>, <<DataGlob>>, <<DataGlob, AllTsGlob>>}
  /\ catalog = Undefined
  /\ classIndex = Undefined

\* buildServiceCatalog({ projectRoot, includeGlobs })
BuildCatalog ==
  /\ op = "none"
  /\ catalog' = BuildServiceCatalog(includeGlobs, disk)
  /\ op' = "buildServiceCatalog"
  /\ UNCHANGED <<project, source, analyzer, traversalVars, disk, includeGlobs, classIndex, routingFile, routesWithMenuId, totalRoutesFound>>

\* buildClassIndex({ projectRoot, serviceCatalog })
BuildIndex ==
  /\ op = "buildServiceCatalog"
  /\ classIndex' = BuildClassIndex(catalog.services, disk)
  /\ op' = "buildClassIndex"
  /\ UNCHANGED <<project, source, analyzer, traversalVars, disk, includeGlobs, catalog, routingFile, routesWithMenuId, totalRoutesFound>>

IndexSpec == IndexInit /\ [][BuildCatalog \/ BuildIndex]_vars

\* ---- analysis/RouteAnalyzer.ts ----
\* A routing file holds one RouterModule.forRoot(...) call. Its argument is an
\* array literal of route objects or the identifier of a variable declared in
\* the file. A route object has a path, a data property (absent, or an object
\* literal given by its property assignments) and its children, an array
\* literal of route objects (empty when the route has no children property).
MaxRouteObjects == 3

\* the arrays of route objects that hold n route objects in all, nested ones
\* included
RECURSIVE RouteArrays(_)
RouteArrays(n) ==
  LET Prop(name, kind, value) == [name |-> name, kind |-> kind, value |-> value]
      DataForms ==
        { [kind |-> "none", properties |-> <<>>] }
        \cup { [kind |-> "ObjectLiteralExpression", properties |-> ps] :
                 ps \in { <<Prop("menuId", "StringLiteral", "main-home")>>,
                          <<Prop("menuId", "StringLiteral", "")>>,
                          <<Prop("menuId", "NumericLiteral", "200")>>,
                          <<Prop("title", "StringLiteral", "Home")>> } }
  IN IF n = 0 THEN { <<>> }
     ELSE UNION { { <<[path |-> "home", data |-> d, children |-> c]>> \o rest :
                      d \in DataForms, c \in RouteArrays(k - 1), rest \in RouteArrays(n - k) } :
                  k \in 1..n }

\* lines 662-677: the value of the first menuId property that is a string literal
ExtractMenuIdFromData(dataObject) ==
  LET hits == SelectSeq(dataObject.properties,
                        LAMBDA p : p.name = "menuId" /\ p.kind = "StringLiteral")
  IN IF hits = <<>> THEN Undefined ELSE hits[1].value

\* lines 580-606 and 611-657, 682-696: acc holds routesWithMenuId and
\* totalRoutesFound
RECURSIVE AnalyzeRoutesArray(_, _, _)
RECURSIVE AnalyzeRouteObject(_, _, _)
AnalyzeRoutesArray(routesExpression, file, acc) ==
  IF routesExpression.kind = "ArrayLiteralExpression"
  THEN IF routesExpression.elements = <<>> THEN acc
       ELSE LET one == AnalyzeRouteObject(Head(routesExpression.elements), file, acc)
            IN AnalyzeRoutesArray([routesExpression EXCEPT !.elements = Tail(@)], file,
                                  [one EXCEPT !.totalRoutesFound = @ + 1])
  ELSE LET decls == SelectSeq(file.declarations, LAMBDA v : v.name = routesExpression.name)
       IN IF decls = <<>> THEN acc ELSE AnalyzeRoutesArray(decls[1].initializer, file, acc)

AnalyzeRouteObject(routeObject, file, acc) ==
  LET menuId == IF routeObject.data.kind = "ObjectLiteralExpression"
                THEN ExtractMenuIdFromData(routeObject.data) ELSE Undefined
      \* if (menuId): undefined and '' are falsy
      acc2 == IF menuId # Undefined /\ menuId # ""
              THEN [acc EXCEPT !.routesWithMenuId =
                      Append(@, [routePath |-> routeObject.path, menuId |-> menuId,
                                 routeConfig |-> routeObject])]
              ELSE acc
  IN IF routeObject.children = <<>> THEN acc2
     ELSE AnalyzeRoutesArray([kind |-> "ArrayLiteralExpression", elements |-> routeObject.children],
                             file, acc2)

\* analyze(), lines 474-493, over the one routing file (analyzeSourceFile,
\* lines 551-575)
RouteAnalyze ==
  /\ op \in {"none", "analyzeRoutes"}
  /\ LET result == AnalyzeRoutesArray(routingFile.argument, routingFile,
                                      [routesWithMenuId |-> <<>>, totalRoutesFound |-> 0])
     IN /\ routesWithMenuId' = result.routesWithMenuId
        /\ totalRoutesFound' = result.totalRoutesFound
  /\ op' = "analyzeRoutes"
  /\ UNCHANGED <<routingFile, project, source, analyzer, traversalVars, indexVars>>

\* the routing file: the routes inline in the call, or in `const routes`
RouteInit ==
  /\ TraversalIdle
  /\ IndexIdle
  /\ project = FreshProject
  /\ source = <<>>
  /\ analyzer = Undefined
  /\ op = "none"
  /\ LET Array(elements) == [kind |-> "ArrayLiteralExpression", elements |-> elements]
     IN routingFile \in
          UNION { { [argument |-> Array(routes), declarations |-> <<>>],
                    [argument |-> [kind |-> "Identifier", name |-> "routes"],
                     declarations |-> <<[name |-> "routes", initializer |-> Array(routes)]>>] } :
                  routes \in UNION { RouteArrays(n) : n \in 0..MaxRouteObjects } }
  /\ routesWithMenuId = <<>>
  /\ totalRoutesFound = 0

RouteSpec == RouteInit /\ [][RouteAnalyze]_vars

\* ---- the claims ----
Identity(x) == <<Resolve(x.file), x.className>>

RootIdentity(r) == <<Resolve(r.sourceFilePath), r.componentClassName>>

NodeIdentities == { Identity(nodes[i]) : i \in 1..Len(nodes) }

\* C1: no two entries of the output nodes have the same identity
\* (resolved file path, class name).
C1_NoDuplicateNodes ==
  \A i, j \in 1..Len(nodes) : i # j => Identity(nodes[i]) # Identity(nodes[j])

\* the same root given twice, in a cyclic graph
C1_Witness ==
  /\ pc = "done"
  /\ Len(roots) = 2
  /\ RootIdentity(roots[1]) = RootIdentity(roots[2])
  /\ Len(nodes) = 2
  /\ \E i \in 1..Len(edges) : Identity(edges[i].to) = RootIdentity(roots[1])

\* C2: in every state of the loop and in the result, nodes.length <= maxNodes
\* (maxNodes >= 0).
C2_NodeCeiling == maxNodes >= 0 => Len(nodes) <= maxNodes

C2_Witness ==
  /\ pc = "done"
  /\ maxNodes > 0
  /\ Len(nodes) = maxNodes
  /\ queue # <<>>

NodeLimitDiagCount ==
  Cardinality({ i \in 1..Len(diagnostics) : diagnostics[i] = NodeLimitDiag(maxNodes) })

CeilingFired == NodeLimitDiagCount > 0

UnvisitedQueued == \E i \in 1..Len(queue) : NodeKey(queue[i].file, queue[i].className) \notin visited

TruncatedResult == pc = "done" /\ truncated /\ CeilingFired

\* C3 (as stated): whenever the node count has reached maxNodes while the queue
\* is non-empty, whatever the queued items are, the result is truncated and
\* carries the node-limit diagnostic.
C3_ReachedWhileNonEmpty ==
  (pc = "loop" /\ Len(nodes) >= maxNodes /\ queue # <<>>) ~> TruncatedResult

\* C3 (amended): whenever the node count has reached maxNodes while the queue
\* still holds an item whose identity is not visited, the result is truncated
\* and carries the node-limit diagnostic.
C3_ReachedWhileUnvisitedQueued ==
  (pc = "loop" /\ Len(nodes) >= maxNodes /\ UnvisitedQueued) ~> TruncatedResult

C3_Witness ==
  /\ TruncatedResult
  /\ maxNodes > 0
  /\ Len(nodes) = maxNodes

\* C4: limits.truncated is true if and only if the node-ceiling step fired,
\* whatever other diagnostics the run appended.
C4_TruncatedIffCeilingFired == pc = "done" => (truncated <=> CeilingFired)

\* C5: the node-limit diagnostic is appended at most once; once it is appended
\* no node, edge or diagnostic is added and no further item is dequeued; with
\* maxNodes = 1 and a processed node that discovers a further loadable
\* identity the result has one node, one truncation diagnostic and truncated.
C5_DiscoversFurther ==
  \E i \in 1..Len(edges) :
     /\ Identity(edges[i].to) # Identity(edges[i].from)
     /\ GetClass(edges[i].to.file, edges[i].to.className) # Undefined

C5_HaltsOnce ==
  [][ /\ CeilingFired => UNCHANGED <<nodes, edges, diagnostics, queue, visited>>
      /\ NodeLimitDiagCount' <= 1
      /\ (pc' = "done" /\ maxNodes' = 1 /\ C5_DiscoversFurther')
           => (Len(nodes') = 1 /\ NodeLimitDiagCount' = 1 /\ truncated') ]_vars

C5_Witness ==
  /\ pc = "done"
  /\ maxNodes = 1
  /\ C5_DiscoversFurther
  /\ queue # <<>>
  /\ NodeLimitDiagCount = 1

\* C6: the traversal loop terminates for every project, cyclic or not, and
\* every maxDepth and maxNodes.
C6_Terminates == <>(pc = "done")

\* a finished, untruncated, depth-unbounded run over a graph with a cycle
C6_Witness ==
  /\ pc = "done"
  /\ maxDepth = Infinity
  /\ ~CeilingFired
  /\ \E i, j \in 1..Len(edges) :
        /\ Identity(edges[i].to) = Identity(edges[j].from)
        /\ Identity(edges[j].to) = Identity(edges[i].from)

\* C7: root A whose template names B's selector, B's template naming A's
\* selector, no other dependencies, limits not binding: the run ends with the
\* nodes A, B and the template-tag edges A->B, B->A, and A is never queued
\* again once it is visited.
IdA == <<FileA, "A">>
IdB == <<FileB, "B">>

C7_Scenario ==
  /\ Len(roots) = 1
  /\ RootIdentity(roots[1]) = IdA
  /\ template = [c \in Components |-> IF c = "A" THEN <<"b-comp">> ELSE <<"a-comp">>]
  /\ \A c \in NamedClasses : members[c] = <<>>
  /\ maxNodes >= 2
  /\ maxDepth >= 1

C7_MutualReferences ==
  C7_Scenario =>
    /\ NodeKey(FileA, "A") \in visited
         => \A i \in 1..Len(queue) : Identity(queue[i]) # IdA
    /\ pc = "done" =>
         /\ [i \in 1..Len(nodes) |-> Identity(nodes[i])] = <<IdA, IdB>>
         /\ [i \in 1..Len(edges) |-> <<Identity(edges[i].from), Identity(edges[i].to), edges[i].reason>>]
              = << <<IdA, IdB, "template-tag">>, <<IdB, IdA, "template-tag">> >>

C7_Witness == C7_Scenario /\ pc = "done" /\ Len(nodes) = 2 /\ Len(edges) = 2

NodeEmitted == Len(nodes') = Len(nodes) + 1

NewEdgeIndexes == (Len(edges) + 1)..Len(edges')

NewQueueIndexes == Len(queue)..Len(queue')

LimitsNotBinding == pc = "done" /\ ~CeilingFired /\ maxDepth = Infinity

\* C8: when a component node is processed, every non-generic tag of its
\* template that is a key of the selector index yields a template-tag edge to
\* each component registered under it, each unvisited target is enqueued at
\* depth+1, and with limits not binding every such target appears in nodes.
C8_EdgesEmitted ==
  (NodeEmitted /\ nodes'[Len(nodes')].kind = "component") =>
    \A t \in Range(template[GetClass(Item.file, Item.className)]) :
      (~IsLikelyHtmlTag(t) /\ t \in DOMAIN selectorToComponent') =>
        \A k \in 1..Len(selectorToComponent'[t]) :
          LET target == selectorToComponent'[t][k]
          IN /\ \E i \in NewEdgeIndexes :
                  /\ edges'[i].reason = "template-tag"
                  /\ Identity(edges'[i].from) = Identity(Item)
                  /\ Identity(edges'[i].to) = Identity(target)
             /\ NodeKey(target.file, target.className) \notin visited' =>
                  \E j \in NewQueueIndexes :
                     /\ Identity(queue'[j]) = Identity(target)
                     /\ queue'[j].depth = Item.depth + 1

C8_TargetsReached ==
  LimitsNotBinding =>
    \A i \in 1..Len(edges) :
       edges[i].reason = "template-tag" => Identity(edges[i].to) \in NodeIdentities

C8_TemplateTagEdges == [][C8_EdgesEmitted /\ C8_TargetsReached']_vars

\* C9: every emitted node gets exactly one injects edge per distinct class its
\* constructor parameters and typed fields resolve to, each unvisited target is
\* enqueued at depth+1, injected services are reached recursively, and no two
\* injects edges of a run share (from, to).
C9_ResolvedClasses(cls) ==
  { <<FileOf(t), GetName(t)>> : t \in Range(members[cls]) \cap NamedClasses }

C9_OnePerClass ==
  LET newInjects == { i \in NewEdgeIndexes : edges'[i].reason = "injects" }
  IN IF NodeEmitted
     THEN LET resolved == C9_ResolvedClasses(GetClass(Item.file, Item.className))
          IN /\ \A i \in newInjects :
                  Identity(edges'[i].from) = Identity(Item) /\ Identity(edges'[i].to) \in resolved
             /\ \A d \in resolved :
                  /\ Cardinality({ i \in newInjects : Identity(edges'[i].to) = d }) = 1
                  /\ NodeKey(d[1], d[2]) \notin visited' =>
                       \E j \in NewQueueIndexes :
                          /\ Identity(queue'[j]) = d
                          /\ queue'[j].depth = Item.depth + 1
                          /\ queue'[j].reason = "injects"
     ELSE newInjects = {}

C9_NoParallelInjects ==
  \A i, j \in 1..Len(edges) :
     (i # j /\ edges[i].reason = "injects" /\ edges[j].reason = "injects")
       => <<Identity(edges[i].from), Identity(edges[i].to)>> # <<Identity(edges[j].from), Identity(edges[j].to)>>

C9_ReachedRecursively ==
  LimitsNotBinding =>
    \A i \in 1..Len(edges) :
       edges[i].reason = "injects" => Identity(edges[i].to) \in NodeIdentities

C9_InjectsEdges == [][C9_OnePerClass /\ C9_NoParallelInjects' /\ C9_ReachedRecursively']_vars

\* a service, itself reached by injection, that injects another service, both
\* emitted
C9_Witness ==
  /\ pc = "done"
  /\ \E i \in 1..Len(edges), n \in 1..Len(nodes) :
        /\ edges[i].reason = "injects"
        /\ nodes[n].kind = "service"
        /\ Identity(edges[i].from) = Identity(nodes[n])
        /\ Identity(edges[i].to) # Identity(edges[i].from)
        /\ Identity(edges[i].to) \in NodeIdentities
        /\ \E j \in 1..Len(edges) :
              edges[j].reason = "injects" /\ Identity(edges[j].to) = Identity(nodes[n])

\* C10 (as stated): an admitted identity whose file cannot be loaded, whose
\* class is missing or whose class is not a component gets a diagnostic and no
\* node, and the loop continues with the next item.
C10_Unloadable == ~CanLoadFile(project, Item.file)

C10_ClassMissing ==
  CanLoadFile(project, Item.file) /\ GetClass(Item.file, Item.className) = Undefined

C10_NotComponent ==
  /\ CanLoadFile(project, Item.file)
  /\ GetClass(Item.file, Item.className) # Undefined
  /\ ~HasDecorator(GetClass(Item.file, Item.className), "Component")

C10_SkippedWithDiagnostic ==
  /\ Len(diagnostics') = Len(diagnostics) + 1
  /\ nodes' = nodes
  /\ edges' = edges
  /\ pc' = "loop"
  /\ queue' = Tail(queue)

C10_NonComponentSkipped ==
  [][(Admitted /\ (C10_Unloadable \/ C10_ClassMissing \/ C10_NotComponent))
       => C10_SkippedWithDiagnostic]_vars

\* C10 (amended): an admitted identity whose file cannot be loaded or whose
\* class is missing gets a diagnostic and no node, and the loop continues with
\* the next item; a class that is present but not a component is emitted as a
\* service node without a diagnostic.
C10_FailuresSkipped ==
  [][ /\ (Admitted /\ (C10_Unloadable \/ C10_ClassMissing)) => C10_SkippedWithDiagnostic
      /\ (Admitted /\ C10_NotComponent) =>
            /\ NodeEmitted
            /\ nodes'[Len(nodes')].kind = "service"
            /\ Identity(nodes'[Len(nodes')]) = Identity(Item)
            /\ diagnostics' = diagnostics
            /\ pc' = "loop"
      /\ \A i \in 1..Len(nodes') : GetClass(nodes'[i].file, nodes'[i].className) # Undefined ]_vars

\* a run whose first root failed with a diagnostic and which went on to emit a node
C10_Witness ==
  /\ pc = "done"
  /\ Len(diagnostics) >= 1
  /\ diagnostics[1] \in { FileNotFoundDiag(Resolve(roots[1].sourceFilePath)),
                          ClassNotFoundDiag(roots[1].componentClassName, Resolve(roots[1].sourceFilePath)) }
  /\ Len(nodes) >= 1

\* ---- C11 ----
\* The files a run can load by itself, whatever the shared project held
\* before: the prologue's loads from a fresh project, and the files that
\* declare a type some member of a class resolves to.
C11_OwnFiles ==
  LoadSiblings(PreloadRoots(FreshProject, roots, members), roots)
    \cup { FileOf(ResolveType(t)) :
             t \in { u \in UNION { Range(members[c]) : c \in NamedClasses } : ResolveType(u) # Undefined } }

C11_IndexEntries ==
  UNION { Range(selectorToComponent[k]) : k \in DOMAIN selectorToComponent }

\* C11: the shared project affects performance only: the selector index a run
\* uses holds no entry that exists only because an earlier call had loaded the
\* file, and so no edge of the result leads to such a file.
C11_SharedProjectIsCacheOnly ==
  /\ \A e \in C11_IndexEntries : e.file \in C11_OwnFiles
  /\ \A i \in 1..Len(edges) : edges[i].to.file \in C11_OwnFiles

\* ---- C12 ----
C12_Triple(e) == <<Identity(e.from), Identity(e.to), e.reason>>

\* C12: the edges one iteration emits have pairwise distinct
\* (from, to, reason) triples, also when the template names several selector
\* alternatives of one component.
C12_NoDuplicateTriples ==
  [][\A i, j \in NewEdgeIndexes : i # j => C12_Triple(edges'[i]) # C12_Triple(edges'[j])]_vars

\* ---- C13 ----
\* C13: after every call of analyze(), also one that ends at the load failure
\* or at the missing class, the output fields are what this call produced from
\* a reset instance: nothing of an earlier call is left.
C13_NoStaleOutput ==
  op = "analyze" => analyzer = AnalyzeResult(ResetState(analyzer), project, source)

\* ---- C14 ----
\* C14: in the instance summaries of one class no two entries have the same
\* propertyName, whichever of parameter property, declared field and
\* constructor-only parameter matched the name.
C14_UniqueMemberNames ==
  op = "analyze" =>
    \A i, j \in 1..Len(analyzer.serviceInstancesFromTargetModules) :
       i # j => analyzer.serviceInstancesFromTargetModules[i].propertyName
                  # analyzer.serviceInstancesFromTargetModules[j].propertyName

\* ---- C15 ----
\* strictly ascending in code-unit order: sorted and duplicate-free
C15_SortedDistinct(s) == \A i, j \in 1..Len(s) : i < j => CodeUnitLess(s[i], s[j])

\* C15: after every exit path of analyze(), and in the direct summary copied
\* from it, allMethodsUsed is the sorted duplicate-free union of the
\* instances' methodsUsed lists, and every methodsUsed list is sorted and
\* duplicate-free.
C15_SortedUnion ==
  op = "analyze" =>
    LET direct == Direct(analyzer)
    IN /\ C15_SortedDistinct(direct.allMethodsUsed)
       /\ \A i \in 1..Len(direct.instances) : C15_SortedDistinct(direct.instances[i].methodsUsed)
       /\ Range(direct.allMethodsUsed)
            = UNION { Range(direct.instances[i].methodsUsed) : i \in 1..Len(direct.instances) }

\* save() is called before load() in the source, and both are reported
C15_Witness ==
  /\ op = "analyze"
  /\ analyzer.allMethodsUsedOnTargetInstances = <<"load", "save">>
  /\ \E i, j \in 1..Len(source) :
        i < j /\ source[i].text = <<"this", ".", "svc", "?.", "save">>
              /\ source[j].text = <<"this", ".", "svc", ".", "load">>

\* ---- C16 ----
\* every call expression of the class, descendants included
C16_AllCalls ==
  UNION { Range(CallExpressions(e.text)) : e \in { x \in Range(source) : x.kind = "call" } }

\* the methods called as this.<name>.<m>() or this.<name>?.<m>()
C16_CalledOnThis(name) ==
  { t[5] : t \in { u \in C16_AllCalls :
                     /\ Len(u) = 5 /\ u[1] = "this" /\ u[2] = "." /\ u[3] = name
                     /\ u[4] \in {".", "?."} } }

\* the type text names a binding imported from an allow-listed module
C16_AllowListed(text) ==
  \E d \in Range(source) :
     /\ d.kind = "import" /\ d.spec \in Range(analyzer.targetModules)
     /\ \/ d.scope = "named" /\ text = <<d.name>>
        \/ d.scope = "namespace" /\ Len(text) = 3 /\ text[1] = d.name /\ text[2] = "."

C16_Analysed == op = "analyze" /\ analyzer.sourceFilePath = FileA

C16_Scenario ==
  /\ C16_Analysed
  /\ \E e \in Range(source) :
        e.kind = "param" /\ e.scope # "" /\ e.name = "svc" /\ e.text = <<"Svc">> /\ C16_AllowListed(e.text)

\* C16: with a parameter property svc of an allow-listed imported type, the
\* summary of svc is {propertyName: 'svc', typeName: the local type name,
\* methodsUsed: the sorted distinct names m of all calls this.svc.m() and
\* this.svc?.m() in constructor, methods and accessors}; a member whose type is
\* not allow-listed gets no entry, whatever is called on it.
C16_MethodUsage ==
  /\ C16_Scenario =>
       \E i \in 1..Len(analyzer.serviceInstancesFromTargetModules) :
          LET e == analyzer.serviceInstancesFromTargetModules[i]
          IN /\ e.propertyName = "svc" /\ e.typeName = "Svc"
             /\ Range(e.methodsUsed) = C16_CalledOnThis("svc")
             /\ C15_SortedDistinct(e.methodsUsed)
  /\ C16_Analysed =>
       \A i \in 1..Len(analyzer.serviceInstancesFromTargetModules) :
          \E m \in Range(source) :
             /\ m.kind \in {"param", "prop"}
             /\ m.name = analyzer.serviceInstancesFromTargetModules[i].propertyName
             /\ C16_AllowListed(m.text)

\* this.svc.load() and this.svc?.save() are both reported for svc
C16_Witness ==
  /\ C16_Scenario
  /\ \E i \in 1..Len(analyzer.serviceInstancesFromTargetModules) :
        analyzer.serviceInstancesFromTargetModules[i]
          = [propertyName |-> "svc", typeName |-> "Svc", methodsUsed |-> <<"load", "save">>]

\* ---- C17 ----
\* the call expressions lexically inside the constructor
C17_CtorCalls ==
  UNION { Range(CallExpressions(e.text)) :
            e \in { x \in Range(source) : x.kind = "call" /\ x.scope = "Constructor" } }

\* the methods called as <name>.<m>() or <name>?.<m>() inside the constructor
C17_CalledBareInCtor(name) ==
  { t[3] : t \in { u \in C17_CtorCalls : Len(u) = 3 /\ u[1] = name /\ u[2] \in {".", "?."} } }

C17_CtorOnlyParams ==
  { e \in Range(source) : e.kind = "param" /\ e.scope = "" /\ C16_AllowListed(e.text) }

\* C17: a constructor parameter without a modifier whose type is an
\* allow-listed import has its own entry in the summaries, whose methodsUsed
\* are exactly the methods called on the bare identifier inside the
\* constructor; calls on that name elsewhere are not attributed to it.
C17_CtorOnlyParam ==
  C16_Analysed =>
    \A e \in C17_CtorOnlyParams :
       \E i \in 1..Len(analyzer.serviceInstancesFromTargetModules) :
          LET r == analyzer.serviceInstancesFromTargetModules[i]
          IN /\ r.propertyName = e.name
             /\ r.typeName = e.text[Len(e.text)]
             /\ Range(r.methodsUsed) = C17_CalledBareInCtor(e.name)

\* p?.fetch() in the constructor is reported; a second call p.fetch() in an
\* accessor is in the source as well
C17_Witness ==
  /\ C16_Analysed
  /\ \E e \in C17_CtorOnlyParams : e.name = "p"
  /\ \E c \in Range(source) : c.kind = "call" /\ c.scope = "GetAccessor" /\ c.text = <<"p", ".", "fetch">>
  /\ \E i \in 1..Len(analyzer.serviceInstancesFromTargetModules) :
        analyzer.serviceInstancesFromTargetModules[i]
          = [propertyName |-> "p", typeName |-> "Client", methodsUsed |-> <<"fetch">>]

\* ---- C18 ----
\* the allow-listed modules some import declaration of the file names
C18_Observed ==
  { m \in Range(analyzer.targetModules) :
      \E d \in Range(source) : d.kind = "import" /\ d.spec = m }

\* C18: the matched modules are the allow-listed modules observed in the
\* import declarations, each listed once however many declarations name it;
\* with an empty allow-list or no matching import every output is empty.
C18_MatchedModules ==
  C16_Analysed =>
    /\ Range(analyzer.matchedModuleSpecifiers) = C18_Observed
    /\ Len(analyzer.matchedModuleSpecifiers) = Cardinality(C18_Observed)
    /\ C18_Observed = {} =>
          /\ analyzer.importsFromTargetModules = <<>>
          /\ analyzer.serviceInstancesFromTargetModules = <<>>

\* no file under the project root matches an include glob
C19_NoFileMatches ==
  \A f \in Range(ListAllFiles(ProjectRoot)) : ~IsServiceFile(ProjectRoot, f, includeGlobs)

\* C19: buildServiceCatalog returns its services sorted ascending by key, with
\* pairwise distinct keys and key = file + '#' + className in every record;
\* with an empty includeGlobs list it returns no services and the diagnostic
\* 'No include globs provided'; when no file matches it returns no services.
C19_ServiceCatalog ==
  op \in {"buildServiceCatalog", "buildClassIndex"} =>
    LET s == catalog.services
    IN /\ \A i, j \in 1..Len(s) : i < j => LocaleCompare(s[i].key, s[j].key) <= 0
       /\ \A i, j \in 1..Len(s) : i # j => s[i].key # s[j].key
       /\ \A i \in 1..Len(s) : s[i].key = s[i].file \o <<"#", s[i].className>>
       /\ includeGlobs = <<>> =>
            (s = <<>> /\ <<"No include globs provided">> \in Range(catalog.diagnostics))
       /\ C19_NoFileMatches => s = <<>>

\* a catalog of two services of one file whose text declares them in
\* descending order of key
C19_Witness ==
  /\ op = "buildServiceCatalog"
  /\ Len(catalog.services) >= 2
  /\ \E i, j \in 1..Len(disk) :
       /\ i < j
       /\ disk[i].file = UserServiceFile /\ disk[i].name = "UserService"
       /\ disk[j].file = UserServiceFile /\ disk[j].name = "AuditService"

\* the class a type name written in a file denotes: a class the file
\* declares, else the class of that name in the file a relative import of
\* the name points to, else none
C20_DeclaredClass(file, typeName) ==
  IF DeclaresClass(disk, file, typeName) THEN <<file, typeName>>
  ELSE IF ImportedFiles(disk, file, typeName) # <<>>
  THEN <<ImportedFiles(disk, file, typeName)[1], typeName>>
  ELSE <<>>

\* C20: every {service, method} of tnApiCalls names a catalog service whose
\* record (file, className) is the class that the declared type of the member
\* the method is called on denotes; a call on a class outside the catalog is
\* never attributed to a catalog service of the same name in another file.
C20_NoExtraneousCalls ==
  op = "buildClassIndex" =>
    \A e \in Range(classIndex.classes) : \A c \in Range(e.tnApiCalls) :
      \E s \in Range(catalog.services) :
        /\ s.key = c.service
        /\ \E d \in Range(DeclsOf(disk, e.file, "class")) :
             /\ d.name = e.className
             /\ d.member # ""
             /\ c.method \in Range(MemberCalls(d.text, d.member))
             /\ C20_DeclaredClass(e.file, d.type) = <<s.file, s.className>>

\* ---- C21 ----
C21_TooDeep == Dequeued /\ Item.depth > maxDepth

C21_Skipped ==
  /\ queue' = Tail(queue)
  /\ pc' = "loop"
  /\ visited' = visited
  /\ diagnostics' = diagnostics
  /\ edges' = edges
  /\ nodes' = nodes

C21_EmittedWithinDepth == NodeEmitted => Item.depth <= maxDepth

\* the identities the edges of the processed item go to
C21_Targets ==
  LET cls == GetClass(Item.file, Item.className)
  IN C9_ResolvedClasses(cls)
     \cup (IF HasDecorator(cls, "Component")
           THEN UNION { { Identity(selectorToComponent'[t][k]) : k \in 1..Len(selectorToComponent'[t]) } :
                          t \in { u \in Range(template[cls]) \cap DOMAIN selectorToComponent' :
                                    ~IsLikelyHtmlTag(u) } }
           ELSE {})

C21_EdgesAtCeiling ==
  (NodeEmitted /\ Item.depth = maxDepth) =>
    \A d \in C21_Targets :
      \E i \in NewEdgeIndexes : Identity(edges'[i].from) = Identity(Item) /\ Identity(edges'[i].to) = d

\* C21 (as stated): every emitted node was dequeued at a depth <= maxDepth;
\* every dequeued item whose depth exceeds maxDepth is skipped: the loop goes
\* on, nothing is marked visited, no diagnostic and no edge is added; a node
\* emitted at depth maxDepth still gets its edges to the deeper targets.
C21_DepthSkip ==
  [][C21_EmittedWithinDepth /\ (C21_TooDeep => C21_Skipped) /\ C21_EdgesAtCeiling]_vars

\* C21 (amended): the same, for the too-deep items that are not unvisited
\* items dequeued with the node ceiling reached; those stop the loop with the
\* node-limit diagnostic before the depth is tested.
C21_DepthSkipBelowCeiling ==
  [][ /\ C21_EmittedWithinDepth
      /\ (C21_TooDeep /\ ~(ItemKey \notin visited /\ Len(nodes) >= maxNodes)) => C21_Skipped
      /\ C21_EdgesAtCeiling ]_vars

\* a finished run with maxDepth 0 and no diagnostic whose root has an edge to
\* a class of the project that was skipped for its depth
C21_Witness ==
  /\ pc = "done"
  /\ maxDepth = 0
  /\ diagnostics = <<>>
  /\ Len(nodes) >= 1
  /\ \E i \in 1..Len(edges) :
       /\ Identity(edges[i].to) \notin NodeIdentities
       /\ NodeKey(edges[i].to.file, edges[i].to.className) \notin visited

\* C27: the failure diagnostics of an identity: 'File not found: <file>' or
\* 'Class <className> not found in <file>'.
C27_Diagnosed(x) ==
  \E i \in 1..Len(diagnostics) :
     \/ diagnostics[i] = FileNotFoundDiag(x.file)
     \/ diagnostics[i] = ClassNotFoundDiag(x.className, x.file)

\* C27: at the end of a run whose result has truncated = false and whose
\* maxDepth is unbounded, the target of every emitted edge is the identity of
\* an entry of nodes or has a 'File not found' or 'Class ... not found'
\* diagnostic.
C27_NoTargetLost ==
  (pc = "done" /\ ~truncated /\ maxDepth = Infinity) =>
     \A i \in 1..Len(edges) :
        Identity(edges[i].to) \in NodeIdentities \/ C27_Diagnosed(edges[i].to)

\* a finished, untruncated, unbounded run with an edge whose target is a node
\* and an edge whose target is not a node
C27_Witness ==
  /\ pc = "done" /\ ~truncated /\ maxDepth = Infinity
  /\ \E i \in 1..Len(edges) : Identity(edges[i].to) \in NodeIdentities
  /\ \E i \in 1..Len(edges) :
        Identity(edges[i].to) \notin NodeIdentities /\ C27_Diagnosed(edges[i].to)

C29_Failing ==
  { x \in { [file |-> Resolve(roots[i].sourceFilePath), className |-> roots[i].componentClassName] :
              i \in 1..Len(roots) }
          \cup { edges[i].to : i \in 1..Len(edges) } :
      ~CanLoadFile(project, x.file) \/ GetClass(x.file, x.className) = Undefined }

C29_DiagnosticIndexes(x) ==
  { i \in 1..Len(diagnostics) :
      diagnostics[i] \in {FileNotFoundDiag(x.file), ClassNotFoundDiag(x.className, x.file)} }

C29_OncePerRun ==
  \A x \in C29_Failing :
     /\ Identity(x) \notin NodeIdentities
     /\ \A i \in 1..Len(edges) : Identity(edges[i].from) # Identity(x)
     /\ Cardinality(C29_DiagnosticIndexes(x)) =
           IF NodeKey(x.file, x.className) \in visited THEN 1 ELSE 0

\* C29: an admitted identity whose file cannot be loaded or whose class is
\* absent is marked visited in the step that appends its one diagnostic; the
\* step adds no node and no edge, so the node count compared with maxNodes is
\* unchanged; the identity has exactly one failure diagnostic from then on,
\* however many items of the queue carry it, is never in nodes and is never
\* the from of an edge.
C29_FailureMarkedVisited ==
  [][ /\ (Admitted /\ (C10_Unloadable \/ C10_ClassMissing)) =>
            /\ ItemKey \in visited'
            /\ Len(nodes') = Len(nodes)
            /\ edges' = edges
            /\ diagnostics' = Append(diagnostics,
                                     IF C10_Unloadable THEN FileNotFoundDiag(Item.file)
                                     ELSE ClassNotFoundDiag(Item.className, Item.file))
      /\ C29_OncePerRun' ]_vars

\* a finished run whose request names the same failing root twice and which
\* holds one diagnostic
C29_Witness ==
  /\ pc = "done"
  /\ Len(roots) = 2 /\ RootIdentity(roots[1]) = RootIdentity(roots[2])
  /\ [file |-> Resolve(roots[1].sourceFilePath), className |-> roots[1].componentClassName] \in C29_Failing
  /\ Len(diagnostics) = 1

\* C30: the queue is kept in non-decreasing depth order
C30_QueueSorted ==
  \A i, j \in 1..Len(queue) : i <= j => queue[i].depth <= queue[j].depth

C30_AllTooDeep(q) == \A i \in 1..Len(q) : q[i].depth > maxDepth

\* C30: the roots are enqueued first, in request order and at depth 0; items
\* are dequeued in non-decreasing depth order, the entries of nodes are in the
\* order of their items' depths and the items a node enqueues are one deeper
\* than it; when an item is skipped because its depth
\* exceeds maxDepth every item still queued exceeds maxDepth too, and from a
\* queue of such items no step emits a node or enqueues an item that does not
\* exceed maxDepth, so nothing dequeued after a depth skip is emitted.
C30_BreadthFirst ==
  [][ /\ pc = "start" =>
            /\ Len(queue') = Len(roots)
            /\ \A i \in 1..Len(roots) :
                  Identity(queue'[i]) = RootIdentity(roots[i]) /\ queue'[i].depth = 0
      /\ C30_QueueSorted'
      /\ (Dequeued /\ queue' # <<>>) => Item.depth <= queue'[1].depth
      /\ (pc = "loop" /\ NodeEmitted) =>
            /\ \A i \in 1..Len(queue') : queue'[i].depth >= Item.depth
            /\ \A i \in NewQueueIndexes : queue'[i].depth = Item.depth + 1
      /\ (C21_TooDeep /\ nodes' = nodes /\ pc' = "loop") => C30_AllTooDeep(queue')
      /\ (pc = "loop" /\ C30_AllTooDeep(queue)) =>
            nodes' = nodes /\ visited' = visited /\ C30_AllTooDeep(queue') ]_vars

\* a finished run with maxDepth 0 and two roots: the first was emitted, the
\* second was dequeued next and failed, and the target of the first root's
\* edge was dequeued last and skipped for its depth
C30_Witness ==
  /\ pc = "done" /\ maxDepth = 0
  /\ Len(roots) = 2 /\ RootIdentity(roots[1]) # RootIdentity(roots[2])
  /\ Len(nodes) = 1 /\ Identity(nodes[1]) = RootIdentity(roots[1])
  /\ Len(diagnostics) = 1
  /\ diagnostics[1] \in { FileNotFoundDiag(Resolve(roots[2].sourceFilePath)),
                          ClassNotFoundDiag(roots[2].componentClassName, Resolve(roots[2].sourceFilePath)) }
  /\ \E i \in 1..Len(edges) : NodeKey(edges[i].to.file, edges[i].to.className) \notin visited

\* C22: the edges pushed by a step start at the item the step processes, which
\* is not yet an entry of nodes, and the edges pushed earlier stay as they
\* are: once a node is in nodes no step adds an edge whose from is that node,
\* also when a later step registers a selector that a tag of the node's
\* template names.
C22_EdgesFixed ==
  [][ /\ Len(edges') >= Len(edges)
      /\ SubSeq(edges', 1, Len(edges)) = edges
      /\ \A i \in NewEdgeIndexes :
            /\ Identity(edges'[i].from) \notin NodeIdentities
            /\ Identity(edges'[i].from) = Identity(Item) ]_vars

\* a finished run in which A is a node, its template holds <e-comp>, the
\* selector index holds e-comp (registered when /r/u.ts was loaded for the
\* item U, after A had been processed) and no edge leaves A for the component
\* of /r/u.ts
C22_Witness ==
  /\ pc = "done"
  /\ IdA \in NodeIdentities
  /\ "e-comp" \in Range(template["A"])
  /\ "e-comp" \in DOMAIN selectorToComponent
  /\ \E n \in 1..Len(nodes) : nodes[n].file = FileU
  /\ \A i \in 1..Len(edges) : Identity(edges[i].from) = IdA => edges[i].to.file # FileU

\* C23: the direct summary the analysis of a component node gives with a
\* module list
C23_Direct(n, mods) ==
  AnalyzeComponentNode(GetClass(n.file, n.className), n.file, n.className, mods, project, source).direct

C23_Default == IF reqTargetModules = Undefined THEN <<>> ELSE reqTargetModules

C23_RootsOf(n) == { i \in 1..Len(roots) : RootIdentity(roots[i]) = Identity(n) }

C23_ComponentNodes == { n \in Range(nodes) : n.kind = "component" }

\* C23 (as stated): a component node whose identity is that of a supplied root
\* carrying an override is analysed with such a root's override, an empty one
\* included; every other component node is analysed with the request's
\* default list, the empty list when the request has none.
C23_PerRootOverride ==
  \A n \in C23_ComponentNodes :
     LET overrides == { roots[i].targetModules :
                          i \in { j \in C23_RootsOf(n) : "targetModules" \in DOMAIN roots[j] } }
     IN n.direct \in IF overrides # {} THEN { C23_Direct(n, mods) : mods \in overrides }
                     ELSE { C23_Direct(n, C23_Default) }

\* C23 (amended): a component node is analysed with the override of the first
\* supplied root that has the node's identity when that root carries an
\* override, an empty one included; otherwise (the first such root carries
\* none, or the node is no root) it is analysed with the request's default
\* list, the empty list when the request has none.
C23_FirstRootOverride ==
  \A n \in C23_ComponentNodes :
     LET first == CHOOSE i \in C23_RootsOf(n) : \A j \in C23_RootsOf(n) : i <= j
     IN n.direct = C23_Direct(n, IF C23_RootsOf(n) # {} /\ "targetModules" \in DOMAIN roots[first]
                                 THEN roots[first].targetModules
                                 ELSE C23_Default)

\* a finished run with the default ['other-lib'] whose root A carries an
\* empty override: the node A has no instance, not the other-lib one
C23_Witness ==
  /\ pc = "done"
  /\ reqTargetModules # Undefined
  /\ \E n \in C23_ComponentNodes :
        /\ C23_RootsOf(n) # {}
        /\ \A i \in C23_RootsOf(n) : "targetModules" \in DOMAIN roots[i] /\ roots[i].targetModules = <<>>
        /\ n.direct.instances = <<>>
        /\ C23_Direct(n, C23_Default).instances # <<>>

\* a finished run with the default ['other-lib'] whose root B carries the
\* override ['tn-api']: A, reached through B's template, is no root and has
\* the other-lib instance
C23_NonRootReached ==
  /\ pc = "done"
  /\ reqTargetModules # Undefined
  /\ \E n \in C23_ComponentNodes :
        /\ C23_RootsOf(n) = {}
        /\ Len(n.direct.instances) = 1
        /\ n.direct.instances[1].propertyName = "helper"

\* C24: the class declaration an entry of the class index was built from: the
\* first declaration of the disk with the entry's key
C24_Declaration(key) ==
  LET hits == { i \in 1..Len(disk) :
                  disk[i].kind = "class" /\ ServiceKey(disk[i].file, disk[i].name) = key }
  IN disk[CHOOSE i \in hits : \A j \in hits : i <= j]

\* C24: an entry of the class index has an injects entry or a tn-api call only
\* when the member of its class is a constructor parameter property or a
\* typed property declaration; a class whose only typed member is a
\* constructor parameter without a modifier has neither.
C24_InjectsOnlyFromProperties ==
  op = "buildClassIndex" =>
    \A i \in 1..Len(classIndex.classes) :
       LET e == classIndex.classes[i]
       IN C24_Declaration(e.key).memberKind \notin {"private", "prop"} =>
             e.injects = <<>> /\ e.tnApiCalls = <<>>

\* C25: the keys of the catalog records that carry a class name
C25_KeysOf(name) ==
  { catalog.services[i].key : i \in { j \in 1..Len(catalog.services) : catalog.services[j].className = name } }

\* C25: after buildClassIndex has read the whole catalog, the by-class-name
\* lookup has no entry for a class name that two or more catalog records with
\* distinct keys carry.
C25_AmbiguousNameRemoved ==
  op = "buildClassIndex" =>
    \A i \in 1..Len(catalog.services) :
       Cardinality(C25_KeysOf(catalog.services[i].className)) >= 2 =>
          ByClassName(catalog.services, catalog.services[i].className, NoKey) = NoKey

\* the route objects of the routing file in the order the analyzer visits
\* them, nested children included
RECURSIVE C26_Visited(_)
C26_Visited(routes) ==
  IF routes = <<>> THEN <<>>
  ELSE <<Head(routes)>> \o C26_Visited(Head(routes).children) \o C26_Visited(Tail(routes))

C26_Routes ==
  C26_Visited(IF routingFile.argument.kind = "ArrayLiteralExpression"
              THEN routingFile.argument.elements
              ELSE routingFile.declarations[1].initializer.elements)

C26_HasMenuId(routeObject) ==
  /\ routeObject.data.kind = "ObjectLiteralExpression"
  /\ \E i \in 1..Len(routeObject.data.properties) : routeObject.data.properties[i].name = "menuId"

\* C26: after RouteAnalyzer.analyze(), routesWithMenuId holds exactly the
\* route objects, at any nesting depth and whether the routes array is inline
\* or a same-file variable, whose data object has a menuId property, and
\* totalRoutesFound is the number of route objects visited.
C26_AllMenuIdRoutesReported ==
  op = "analyzeRoutes" =>
    /\ [i \in 1..Len(routesWithMenuId) |-> routesWithMenuId[i].routeConfig]
         = SelectSeq(C26_Routes, C26_HasMenuId)
    /\ totalRoutesFound = Len(C26_Routes)

====
